---- MODULE Spec2Model ----
(***************************************************************************)
(* A model of the SQLCortex analyzer core: the EXPLAIN plan normalizer     *)
(* (plan_parser.py), the heuristic rule engine (heuristics/rules.py), the  *)
(* ranker (heuristics/score.py), the orchestrator (analyzer.py) and the    *)
(* SQL rewrite guardrail (llm/guardrails.py).                              *)
(*                                                                         *)
(* Python values are tagged records [t |-> <type>, v |-> <payload>], so    *)
(* that isinstance tests, truthiness and coercions are computed the way    *)
(* the interpreter computes them.  A function that can raise returns a     *)
(* record whose exc field names the exception ("none" on a normal return). *)
(***************************************************************************)
EXTENDS Integers, Sequences, FiniteSets, TLC

VARIABLES
    pc,             \* "ready": inputs chosen, call pending; "done": call returned
    explain_json,   \* parse_explain_json / analyze argument (a JSON value)
    max_nodes,      \* parse_explain_json keyword argument
    max_depth,      \* parse_explain_json keyword argument
    parsed,         \* outcome of parse_explain_json
    sql,            \* guard_rewrite / analyze argument (a sequence of tokens)
    order,          \* iteration order of FORBIDDEN_KEYWORDS in this process
    parse,          \* what sqlglot.parse gives for the guarded text
    guard,          \* GuardrailResult of the last guard_rewrite call
    llm_enabled,    \* analyze argument
    llm_suggestion, \* what generate_llm_suggestions gives
    output,         \* outcome of analyze
    reply,          \* what analyze_endpoint answers
    findings,       \* rank_findings argument
    ranking         \* outcome of rank_findings

vars ==
    <<pc, explain_json, max_nodes, max_depth, parsed, sql, order, parse, guard,
      llm_enabled, llm_suggestion, output, reply, findings, ranking>>

parser_vars == <<explain_json, max_nodes, max_depth, parsed>>
guard_vars == <<sql, order, parse, guard>>
analyze_vars == <<llm_enabled, llm_suggestion, output, reply>>
rank_vars == <<findings, ranking>>

---------------------------------------------------------------------------
(* JSON / Python values *)

JNull == [t |-> "null", v |-> 0]
JBool(b) == [t |-> "bool", v |-> b]
JInt(n) == [t |-> "int", v |-> n]
\* a float n/d that is not an integer, or the float of an integer (d = 1)
JFloat(n, d) == [t |-> "float", v |-> <<n, d>>]
JInf == [t |-> "inf", v |-> 0]
JNaN == [t |-> "nan", v |-> 0]
JStr(s) == [t |-> "str", v |-> s]
\* a str whose characters matter, as its sequence of tokens
JText(tokens) == [t |-> "text", v |-> tokens]
JList(items) == [t |-> "list", v |-> items]
JDict(f) == [t |-> "dict", v |-> f]
EmptyDict == [k \in {} |-> JNull]

\* bool(x) as Python evaluates it in `x or y` and `if x`
Truthy(x) ==
    CASE x.t = "null" -> FALSE
      [] x.t = "bool" -> x.v
      [] x.t = "int" -> x.v # 0
      [] x.t = "float" -> x.v[1] # 0
      [] x.t = "str" -> x.v # ""
      [] x.t = "text" -> x.v # <<>>
      [] x.t = "list" -> x.v # <<>>
      [] x.t = "dict" -> DOMAIN x.v # {}
      [] OTHER -> TRUE

\* `a or b`
PyOr(a, b) == IF Truthy(a) THEN a ELSE b

\* dict.get(key): the value, or None when the key is missing
Get(d, key) == IF key \in DOMAIN d THEN d[key] ELSE JNull

\* {k: v for k, v in d.items() if k not in drop}
Without(d, drop) == [k \in (DOMAIN d) \ drop |-> d[k]]

\* d[key] = value on a dict
Put(d, key, value) == [k \in (DOMAIN d) \cup {key} |-> IF k = key THEN value ELSE d[k]]

\* The strings of the model that Python's int() / float() accept.
IntOfStr(s) == CASE s = "7" -> <<7>> [] s = "0" -> <<0>> [] OTHER -> <<>>
FloatOfStr(s) ==
    CASE s = "7" -> <<JFloat(7, 1)>>
      [] s = "0" -> <<JFloat(0, 1)>>
      [] s = "2.5" -> <<JFloat(5, 2)>>
      [] OTHER -> <<>>

\* n / d truncated toward zero, as int(float) does
Trunc(n, d) == IF n >= 0 THEN n \div d ELSE -((-n) \div d)

Return(value) == [exc |-> "none", msg |-> "", value |-> value]
Raise(exc, msg) == [exc |-> exc, msg |-> msg, value |-> JNull]

---------------------------------------------------------------------------
(* plan_parser.py *)

\* _get_int: int(value), None on TypeError / ValueError; int(inf) raises
\* OverflowError, which the except clause does not name.
_get_int(plan, key) ==
    LET value == Get(plan, key) IN
    CASE value.t = "int" -> Return(value)
      [] value.t = "bool" -> Return(JInt(IF value.v THEN 1 ELSE 0))
      [] value.t = "float" -> Return(JInt(Trunc(value.v[1], value.v[2])))
      [] value.t = "str" ->
           IF IntOfStr(value.v) # <<>> THEN Return(JInt(IntOfStr(value.v)[1]))
           ELSE Return(JNull)
      [] value.t = "inf" -> Raise("OverflowError", "cannot convert float infinity to integer")
      [] OTHER -> Return(JNull)

\* _get_float: float(value), None on TypeError / ValueError
_get_float(plan, key) ==
    LET value == Get(plan, key) IN
    CASE value.t = "int" -> Return(JFloat(value.v, 1))
      [] value.t = "bool" -> Return(JFloat(IF value.v THEN 1 ELSE 0, 1))
      [] value.t \in {"float", "inf", "nan"} -> Return(value)
      [] value.t = "str" ->
           IF FloatOfStr(value.v) # <<>> THEN Return(FloatOfStr(value.v)[1])
           ELSE Return(JNull)
      [] OTHER -> Return(JNull)

\* buffers: the raw fields whose name signals I/O or temp-block statistics.
\* The names of the model's plans that satisfy
\*   "Blocks" in key or "I/O" in key or key.startswith("Temp ").
BufferKeys ==
    {"Temp Read Blocks", "Temp Written Blocks", "Shared Hit Blocks",
     "I/O Read Time", "Temp File"}

IsBufferKey(key) == key \in BufferKeys

Max(a, b) == IF a >= b THEN a ELSE b
Min(a, b) == IF a <= b THEN a ELSE b

\* LoopsFloor without the floor at 1.
LoopsFloor_NoFloor(actual_loops) == actual_loops

\* max(1, actual_loops) in line 90
LoopsFloor(actual_loops) == Max(1, actual_loops)

\* _extract_known_fields: the typed attributes of one plan object.  A key
\* the Python dict leaves out (actual_total_rows, buffers) is None here,
\* which is the default NormalizedNode gives it.
_extract_known_fields(plan) ==
    LET ints == [k \in {"Plan Rows", "Plan Width", "Actual Rows", "Actual Loops"}
                   |-> _get_int(plan, k)]
        floats == [k \in {"Startup Cost", "Total Cost", "Actual Startup Time",
                          "Actual Total Time", "Sort Space Used"}
                   |-> _get_float(plan, k)]
        bkeys == {k \in DOMAIN plan : IsBufferKey(k)}
        buffers == [k \in bkeys |-> plan[k]]
        actual_rows == ints["Actual Rows"].value
        actual_loops == IF ints["Actual Loops"].value # JNull
                        THEN ints["Actual Loops"].value.v ELSE 1
    IN  IF \E k \in DOMAIN ints : ints[k].exc # "none"
        THEN Raise("OverflowError", "cannot convert float infinity to integer")
        ELSE Return(
          [node_type |-> PyOr(Get(plan, "Node Type"),
                              PyOr(Get(plan, "Operation"), JStr("Unknown"))),
           relation_name |-> PyOr(Get(plan, "Relation Name"), Get(plan, "Table Name")),
           schema |-> Get(plan, "Schema"),
           alias |-> Get(plan, "Alias"),
           startup_cost |-> floats["Startup Cost"].value,
           total_cost |-> floats["Total Cost"].value,
           plan_rows |-> ints["Plan Rows"].value,
           plan_width |-> ints["Plan Width"].value,
           actual_startup_time |-> floats["Actual Startup Time"].value,
           actual_total_time |-> floats["Actual Total Time"].value,
           actual_rows |-> actual_rows,
           actual_loops |-> ints["Actual Loops"].value,
           actual_total_rows |->
               IF actual_rows # JNull
               THEN JInt(actual_rows.v * LoopsFloor(actual_loops))
               ELSE JNull,
           filter |-> Get(plan, "Filter"),
           index_cond |-> Get(plan, "Index Cond"),
           hash_cond |-> Get(plan, "Hash Cond"),
           merge_cond |-> Get(plan, "Merge Cond"),
           join_filter |-> Get(plan, "Join Filter"),
           sort_key |-> Get(plan, "Sort Key"),
           group_key |-> Get(plan, "Group Key"),
           sort_method |-> Get(plan, "Sort Method"),
           sort_space_used |-> floats["Sort Space Used"].value,
           sort_space_type |-> Get(plan, "Sort Space Type"),
           buffers |-> IF bkeys # {} THEN JDict(buffers) ELSE JNull,
           output |-> Get(plan, "Output")])

---------------------------------------------------------------------------
(* The NormalizedNode constructor: pydantic checks the declared types; a  *)
(* str field takes only a str, a List[str] field only a list of str.      *)
(* ValidationError is a subclass of ValueError.                            *)

StrFields ==
    {"relation_name", "schema", "alias", "filter", "index_cond", "hash_cond",
     "merge_cond", "join_filter", "sort_method", "sort_space_type"}

StrListFields == {"sort_key", "group_key", "output"}

IsStrList(x) == x.t = "list" /\ \A i \in 1..Len(x.v) : x.v[i].t = "str"

FieldsValid(fields) ==
    /\ fields.node_type.t = "str"
    /\ \A f \in StrFields : fields[f].t \in {"null", "str"}
    /\ \A f \in StrListFields : fields[f] = JNull \/ IsStrList(fields[f])

NormalizedNode(fields, children, extra) ==
    IF FieldsValid(fields)
    THEN Return([k \in (DOMAIN fields) \cup {"children", "extra"} |->
                   CASE k = "children" -> children
                     [] k = "extra" -> extra
                     [] OTHER -> fields[k]])
    ELSE Raise("ValidationError", "validation error for NormalizedNode")

known_keys ==
    {"Node Type", "Operation", "Relation Name", "Table Name", "Schema", "Alias",
     "Startup Cost", "Total Cost", "Plan Rows", "Plan Width",
     "Actual Startup Time", "Actual Total Time", "Actual Rows", "Actual Loops",
     "Filter", "Index Cond", "Hash Cond", "Merge Cond", "Join Filter", "Plans",
     "Sort Key", "Group Key", "Sort Method", "Sort Space Used",
     "Sort Space Type", "Output"}

\* The result of _normalize_plan carries the node budget it leaves behind
\* (node_budget is a one-element list shared by all the calls).
Built(node, budget) == [exc |-> "none", msg |-> "", value |-> node, budget |-> budget]
Failed(exc, msg) == [exc |-> exc, msg |-> msg, value |-> JNull, budget |-> 0]

\* The items `for child in children_raw` yields.  A str yields its
\* characters and a dict its keys: none of them is a dict, so the loop
\* body skips them all.
IterItems(x) == IF x.t = "list" THEN x.v ELSE <<>>
Iterable(x) == x.t \in {"list", "str", "dict"}

\* The budget tests of lines 106-111, made before anything else is read.
DepthExceeded(depth, limit) == depth > limit
\* BudgetExhausted testing the budget before the decrement.
BudgetExhausted_OffByOne(node_budget) == node_budget < 0
BudgetExhausted(node_budget) == node_budget - 1 < 0

RECURSIVE _normalize_plan(_, _, _, _)
RECURSIVE NormalizeChildren(_, _, _, _, _)

\* The loop of lines 115-124 from item i on; children is the list so far.
NormalizeChildren(items, max_d, depth, node_budget, children) ==
    IF items = <<>> THEN Built(children, node_budget)
    ELSE IF Head(items).t # "dict"
    THEN NormalizeChildren(Tail(items), max_d, depth, node_budget, children)
    ELSE LET r == _normalize_plan(Head(items), max_d, depth + 1, node_budget) IN
         IF r.exc # "none" THEN r
         ELSE NormalizeChildren(Tail(items), max_d, depth, r.budget,
                                Append(children, r.value))

_normalize_plan(plan, max_d, depth, node_budget) ==
    IF DepthExceeded(depth, max_d)
    THEN Failed("ValueError", "Plan depth exceeded limit of " \o ToString(max_d))
    ELSE IF BudgetExhausted(node_budget)
    THEN Failed("ValueError", "Plan node count exceeded limit")
    ELSE IF plan.t # "dict"
    THEN Failed("AttributeError", "object has no attribute 'get'")
    ELSE LET children_raw == PyOr(Get(plan.v, "Plans"), JList(<<>>)) IN
         IF ~Iterable(children_raw)
         THEN Failed("TypeError", "object is not iterable")
         ELSE LET kids == NormalizeChildren(IterItems(children_raw), max_d, depth,
                                            node_budget - 1, <<>>) IN
              IF kids.exc # "none" THEN kids
              ELSE LET fields == _extract_known_fields(plan.v) IN
                   IF fields.exc # "none" THEN Failed(fields.exc, fields.msg)
                   ELSE LET node == NormalizedNode(fields.value, kids.value,
                                                   Without(plan.v, known_keys)) IN
                        IF node.exc # "none" THEN Failed(node.exc, node.msg)
                        ELSE Built(node.value, kids.budget)

\* The wrapper root of lines 192-199: every attribute but node_type,
\* children and extra keeps its default, None.
SyntheticFields ==
    [node_type |-> JStr("Explain"), relation_name |-> JNull, schema |-> JNull,
     alias |-> JNull, startup_cost |-> JNull, total_cost |-> JNull,
     plan_rows |-> JNull, plan_width |-> JNull, actual_startup_time |-> JNull,
     actual_total_time |-> JNull, actual_rows |-> JNull, actual_loops |-> JNull,
     actual_total_rows |-> JNull, filter |-> JNull, index_cond |-> JNull,
     hash_cond |-> JNull, merge_cond |-> JNull, join_filter |-> JNull,
     sort_key |-> JNull, group_key |-> JNull, sort_method |-> JNull,
     sort_space_used |-> JNull, sort_space_type |-> JNull, buffers |-> JNull,
     output |-> JNull]

\* roots[0].extra["meta"] = meta
AttachMeta(root, meta) == [root EXCEPT !.extra = Put(root.extra, "meta", meta)]

\* ArrayResult with the single-entry metadata dropped.
ArrayResult_NoMeta(roots, meta) ==
    IF Len(roots) = 1 THEN Return(roots[1])
    ELSE NormalizedNode(SyntheticFields, roots, [k \in {"meta"} |-> JList(<<>>)])

\* What parse_explain_json returns for the roots and meta of an array.
ArrayResult(roots, meta) ==
    IF Len(roots) = 1
    THEN IF Len(meta) > 0 /\ Truthy(meta[1])
         THEN Return(AttachMeta(roots[1], meta[1]))
         ELSE Return(roots[1])
    ELSE NormalizedNode(SyntheticFields, roots,
                        [k \in {"meta"} |-> JList(meta)])

RECURSIVE ParseEntries(_, _, _, _, _)
\* The loop of lines 180-184 over the remaining entries.
ParseEntries(entries, max_d, node_budget, roots, meta) ==
    IF entries = <<>> THEN ArrayResult(roots, meta)
    ELSE LET entry == Head(entries) IN
         IF entry.t # "dict" \/ "Plan" \notin DOMAIN entry.v
         THEN Raise("ValueError", "Invalid EXPLAIN JSON array entry")
         ELSE LET r == _normalize_plan(entry.v["Plan"], max_d, 0, node_budget) IN
              IF r.exc # "none" THEN Raise(r.exc, r.msg)
              ELSE ParseEntries(Tail(entries), max_d, r.budget,
                                Append(roots, r.value),
                                Append(meta, JDict(Without(entry.v, {"Plan"}))))

parse_explain_json(json, max_n, max_d) ==
    IF json.t = "list"
    THEN IF json.v = <<>>
         THEN Raise("ValueError", "EXPLAIN JSON array is empty")
         ELSE ParseEntries(json.v, max_d, max_n, <<>>, <<>>)
    ELSE IF json.t = "dict"
    THEN IF "Plan" \notin DOMAIN json.v
         THEN Raise("ValueError", "Missing Plan key in EXPLAIN JSON")
         ELSE LET r == _normalize_plan(json.v["Plan"], max_d, 0, max_n)
                  meta == JDict(Without(json.v, {"Plan"}))
              IN  IF r.exc # "none" THEN Raise(r.exc, r.msg)
                  ELSE IF Truthy(meta) THEN Return(AttachMeta(r.value, meta))
                  ELSE Return(r.value)
    ELSE Raise("ValueError", "EXPLAIN JSON must be an object or array")

\* The defaults of max_nodes and max_depth
DefaultMaxNodes == 50000
DefaultMaxDepth == 200

\* The two failures the parser signals itself, told apart by their text.
LimitMessages(max_d) ==
    {"Plan depth exceeded limit of " \o ToString(max_d),
     "Plan node count exceeded limit"}
MalformedMessages ==
    {"EXPLAIN JSON array is empty", "Invalid EXPLAIN JSON array entry",
     "Missing Plan key in EXPLAIN JSON", "EXPLAIN JSON must be an object or array"}

IsLimitError(o, max_d) == o.exc = "ValueError" /\ o.msg \in LimitMessages(max_d)
IsMalformedError(o) == o.exc = "ValueError" /\ o.msg \in MalformedMessages

---------------------------------------------------------------------------
(* llm/guardrails.py.  A SQL text is a sequence of tokens: a token is one  *)
(* of the marks the regular expressions look for (a quote, a comment       *)
(* opener or closer, a newline, a backslash), a blank, or a word.          *)

SQ == "'"
DQ == "\""
BS == "\\"
NL == "\n"
LineOpen == "--"
BlockOpen == "/*"
BlockClose == "*/"

FORBIDDEN_KEYWORDS ==
    {"insert", "update", "delete", "alter", "drop", "truncate", "create",
     "grant", "revoke"}

\* str.lower() on a token
Lower(tok) ==
    CASE tok = "DELETE" -> "delete"
      [] tok = "UPDATE" -> "update"
      [] tok = "SELECT" -> "select"
      [] tok = "LIMIT" -> "limit"
      [] tok = "EXPLAIN" -> "explain"
      [] tok = "FROM" -> "from"
      [] tok = "WHERE" -> "where"
      [] tok = "IN" -> "in"
      [] OTHER -> tok

\* A token made of \w characters only
Words ==
    FORBIDDEN_KEYWORDS
      \cup {"select", "explain", "from", "where", "limit", "in", "lower", "users",
            "x", "1", "merge"}

IsWord(tok) == Lower(tok) \in Words

IsSpace(tok) == tok \in {" ", NL}

\* re.sub(r"--.*?$", "", sql, flags=re.MULTILINE): from each "--" to the
\* end of its line, the newline kept.
RECURSIVE SkipLine(_)
SkipLine(s) == IF s = <<>> \/ Head(s) = NL THEN s ELSE SkipLine(Tail(s))

RECURSIVE StripLineComments(_)
StripLineComments(s) ==
    IF s = <<>> THEN <<>>
    ELSE IF Head(s) = LineOpen THEN StripLineComments(SkipLine(Tail(s)))
    ELSE <<Head(s)>> \o StripLineComments(Tail(s))

\* Index of the first occurrence of tok in s, 0 when there is none
RECURSIVE IndexOf(_, _, _)
IndexOf(s, tok, i) ==
    IF i > Len(s) THEN 0 ELSE IF s[i] = tok THEN i ELSE IndexOf(s, tok, i + 1)

\* re.sub(r"/\*.*?\*/", "", ..., flags=re.DOTALL): from each "/*" to the
\* nearest "*/" after it; a "/*" that is never closed stays.
RECURSIVE StripBlockComments(_)
StripBlockComments(s) ==
    IF s = <<>> THEN <<>>
    ELSE IF Head(s) = BlockOpen /\ IndexOf(Tail(s), BlockClose, 1) > 0
    THEN StripBlockComments(
            SubSeq(Tail(s), IndexOf(Tail(s), BlockClose, 1) + 1, Len(Tail(s))))
    ELSE <<Head(s)>> \o StripBlockComments(Tail(s))

\* Where '(?:''|[^'])*' ends when it starts at the quote before t: the
\* first quote of t that is not doubled, else (backtracking) the first
\* quote of the last doubled pair, else 0 (no match).
RECURSIVE SingleEnd(_, _, _)
SingleEnd(t, k, lastPair) ==
    IF k > Len(t) THEN lastPair
    ELSE IF t[k] # SQ THEN SingleEnd(t, k + 1, lastPair)
    ELSE IF k + 1 <= Len(t) /\ t[k + 1] = SQ THEN SingleEnd(t, k + 2, k)
    ELSE k

\* Where "(?:\\"|[^"])*" ends: the first double quote not escaped by a
\* backslash, else (backtracking) the last escaped one, else 0.
RECURSIVE DoubleEnd(_, _, _)
DoubleEnd(t, k, lastEscaped) ==
    IF k > Len(t) THEN lastEscaped
    ELSE IF t[k] = BS /\ k + 1 <= Len(t) /\ t[k + 1] = DQ
    THEN DoubleEnd(t, k + 2, k + 1)
    ELSE IF t[k] # DQ THEN DoubleEnd(t, k + 1, lastEscaped)
    ELSE k

\* re.sub(r"'(?:''|[^'])*'", "''", ...)
RECURSIVE StripSingleQuoted(_)
StripSingleQuoted(s) ==
    IF s = <<>> THEN <<>>
    ELSE IF Head(s) = SQ /\ SingleEnd(Tail(s), 1, 0) > 0
    THEN <<SQ, SQ>> \o StripSingleQuoted(
            SubSeq(Tail(s), SingleEnd(Tail(s), 1, 0) + 1, Len(Tail(s))))
    ELSE <<Head(s)>> \o StripSingleQuoted(Tail(s))

\* re.sub(r'"(?:\\"|[^"])*"', '""', ...)
RECURSIVE StripDoubleQuoted(_)
StripDoubleQuoted(s) ==
    IF s = <<>> THEN <<>>
    ELSE IF Head(s) = DQ /\ DoubleEnd(Tail(s), 1, 0) > 0
    THEN <<DQ, DQ>> \o StripDoubleQuoted(
            SubSeq(Tail(s), DoubleEnd(Tail(s), 1, 0) + 1, Len(Tail(s))))
    ELSE <<Head(s)>> \o StripDoubleQuoted(Tail(s))

_strip_comments_and_literals(text) ==
    StripDoubleQuoted(StripSingleQuoted(StripBlockComments(StripLineComments(text))))

\* re.search(rf"\b{keyword}\b", lowered): the keyword stands as a word of
\* its own, no word character on either side.
WordMatch(keyword, lowered) ==
    \E i \in 1..Len(lowered) :
      /\ lowered[i] = keyword
      /\ i > 1 => ~IsWord(lowered[i - 1])
      /\ i < Len(lowered) => ~IsWord(lowered[i + 1])

\* The orders in which `for keyword in FORBIDDEN_KEYWORDS` may visit the
\* set: a set of str iterates in hash order, which differs from one
\* interpreter process to the next.
SourceOrder ==
    <<"insert", "update", "delete", "alter", "drop", "truncate", "create",
      "grant", "revoke">>
Reversed(s) == [i \in 1..Len(s) |-> s[Len(s) + 1 - i]]
IterationOrders == {SourceOrder, Reversed(SourceOrder)}

\* _contains_forbidden_keyword with the search left out.
_contains_forbidden_keyword_Skipped(text, keywords) == JNull

\* _contains_forbidden_keyword: the first keyword, in iteration order,
\* that matches; None when none does.
RECURSIVE FirstMatch(_, _)
FirstMatch(keywords, lowered) ==
    IF keywords = <<>> THEN JNull
    ELSE IF WordMatch(Head(keywords), lowered) THEN JStr(Head(keywords))
    ELSE FirstMatch(Tail(keywords), lowered)

_contains_forbidden_keyword(text, keywords) ==
    FirstMatch(keywords, [i \in 1..Len(_strip_comments_and_literals(text)) |->
                          Lower(_strip_comments_and_literals(text)[i])])

\* GuardrailResult with the reason left at its default.
GuardrailResult_NoReason(allowed, reason) == [allowed |-> allowed, reason |-> JNull]

GuardrailResult(allowed, reason) == [allowed |-> allowed, reason |-> reason]

\* No guard_rewrite call has returned
NotGuarded == [allowed |-> FALSE, reason |-> JStr("pending")]

\* What sqlglot.parse(sql, read="postgres") gives: it raises, or returns
\* a list of statements.  A statement is known by the class of its root
\* ("None" for an empty statement) and the classes of all its nodes.
ParseRaised(msg) == [raised |-> TRUE, msg |-> msg, statements |-> <<>>]
ParseReturned(statements) == [raised |-> FALSE, msg |-> "", statements |-> statements]
Statement(root, nodes) == [root |-> root, nodes |-> nodes]

allowed_roots == {"Select", "Union", "Intersect", "Except", "Explain"}
disallowed ==
    {"Insert", "Update", "Delete", "Alter", "Drop", "Truncate", "Create",
     "Grant", "Revoke"}

\* The AST test looking at the root only.
HasDisallowedNode_RootOnly(statement) == statement.root \in disallowed

\* any(statement.find_all(*disallowed)): the walk visits every node, the
\* root included.
HasDisallowedNode(statement) == statement.nodes \cap disallowed # {}

\* not sql or not sql.strip()
IsBlank(text) == \A i \in 1..Len(text) : IsSpace(text[i])

\* guard_rewrite with the parse made before the keyword check.
guard_rewrite_ParseFirst(text, keywords, parsing) ==
    IF IsBlank(text) THEN GuardrailResult(FALSE, JStr("Rewrite SQL is empty."))
    ELSE IF parsing.raised
    THEN GuardrailResult(FALSE,
            JStr("Rewrite SQL failed to parse: " \o parsing.msg \o "."))
    ELSE LET keyword == _contains_forbidden_keyword(text, keywords) IN
    IF Truthy(keyword)
    THEN GuardrailResult(FALSE,
            JStr("Rewrite contains forbidden keyword: " \o keyword.v \o "."))
    ELSE IF Len(parsing.statements) # 1
    THEN GuardrailResult(FALSE, JStr("Rewrite must contain a single statement."))
    ELSE IF parsing.statements[1].root \notin allowed_roots
    THEN GuardrailResult(FALSE,
            JStr("Rewrite must be a SELECT, WITH, or EXPLAIN statement."))
    ELSE IF HasDisallowedNode(parsing.statements[1])
    THEN GuardrailResult(FALSE, JStr("Rewrite contains non-read-only operations."))
    ELSE GuardrailResult(TRUE, JNull)

guard_rewrite(text, keywords, parsing) ==
    IF IsBlank(text) THEN GuardrailResult(FALSE, JStr("Rewrite SQL is empty."))
    ELSE LET keyword == _contains_forbidden_keyword(text, keywords) IN
    IF Truthy(keyword)
    THEN GuardrailResult(FALSE,
            JStr("Rewrite contains forbidden keyword: " \o keyword.v \o "."))
    ELSE IF parsing.raised
    THEN GuardrailResult(FALSE,
            JStr("Rewrite SQL failed to parse: " \o parsing.msg \o "."))
    ELSE IF Len(parsing.statements) # 1
    THEN GuardrailResult(FALSE, JStr("Rewrite must contain a single statement."))
    ELSE IF parsing.statements[1].root \notin allowed_roots
    THEN GuardrailResult(FALSE,
            JStr("Rewrite must be a SELECT, WITH, or EXPLAIN statement."))
    ELSE IF HasDisallowedNode(parsing.statements[1])
    THEN GuardrailResult(FALSE, JStr("Rewrite contains non-read-only operations."))
    ELSE GuardrailResult(TRUE, JNull)

---------------------------------------------------------------------------
(* heuristics/rules.py.  A score is an exact fraction <<n, d>> in lowest   *)
(* terms: the quotients the rules compute have small denominators, so the  *)
(* order of the fractions is the order of the floats.                      *)

SEQ_SCAN_ROW_THRESHOLD == 50000
NESTED_LOOP_OUTER_THRESHOLD == 50000
MIS_ESTIMATE_RATIO == 10
WIDE_ROW_WIDTH == 200
SORT_SPILL_TEMP_BLOCKS == 1

RECURSIVE GCD(_, _)
GCD(a, b) == IF b = 0 THEN a ELSE GCD(b, a % b)

Frac(n, d) == <<n \div GCD(n, d), d \div GCD(n, d)>>
FracLess(a, b) == a[1] * b[2] < b[1] * a[2]
FracLeq(a, b) == a[1] * b[2] <= b[1] * a[2]
FracMin(a, b) == IF FracLeq(a, b) THEN a ELSE b
One == <<1, 1>>

\* The characters, as strings of one character
LowerLetters == "abcdefghijklmnopqrstuvwxyz"
UpperLetters == "ABCDEFGHIJKLMNOPQRSTUVWXYZ"
Digits == "0123456789"

CharAt(s, i) == SubSeq(s, i, i)

\* The place of the character c in the string s, 0 when it is not there
PlaceIn(s, c) ==
    IF \E i \in 1..Len(s) : CharAt(s, i) = c
    THEN CHOOSE i \in 1..Len(s) : CharAt(s, i) = c
    ELSE 0

\* Whether s holds the string w from place k on
HoldsAt(s, k, w) == k + Len(w) - 1 <= Len(s) /\ SubSeq(s, k, k + Len(w) - 1) = w

CharsOf(s) == {CharAt(s, i) : i \in 1..Len(s)}

\* str.upper() and str.lower() on one character
UpperTable == [c \in CharsOf(LowerLetters) |-> CharAt(UpperLetters, PlaceIn(LowerLetters, c))]
LowerTable == [c \in CharsOf(UpperLetters) |-> CharAt(LowerLetters, PlaceIn(UpperLetters, c))]
UpperOf(c) == IF c \in DOMAIN UpperTable THEN UpperTable[c] ELSE c
LowerOf(c) == IF c \in DOMAIN LowerTable THEN LowerTable[c] ELSE c

\* str.lower()
RECURSIVE LowerStr(_)
LowerStr(s) ==
    IF s = "" THEN "" ELSE LowerOf(CharAt(s, 1)) \o LowerStr(SubSeq(s, 2, Len(s)))

\* needle in haystack
Contains(needle, haystack) == \E i \in 1..Len(haystack) : HoldsAt(haystack, i, needle)

RECURSIVE Join(_, _)
Join(sep, parts) ==
    IF parts = <<>> THEN ""
    ELSE IF Len(parts) = 1 THEN parts[1]
    ELSE parts[1] \o sep \o Join(sep, Tail(parts))

\* walk_plan: the nodes in pre-order, each with the node types on its path
RECURSIVE walk_plan(_, _)
RECURSIVE WalkChildren(_, _)
WalkChildren(children, path) ==
    IF children = <<>> THEN <<>>
    ELSE walk_plan(Head(children), path) \o WalkChildren(Tail(children), path)

walk_plan(node, prefix) ==
    LET path == Append(prefix, node.node_type.v) IN
    <<[node |-> node, path |-> path]>> \o WalkChildren(node.children, path)

\* _severity_from_score with high beginning above 0.8.
_severity_from_score_Above(score) ==
    IF FracLess(<<4, 5>>, score) THEN "high"
    ELSE IF FracLeq(<<1, 2>>, score) THEN "medium"
    ELSE "low"

_severity_from_score(score) ==
    IF FracLeq(<<4, 5>>, score) THEN "high"
    ELSE IF FracLeq(<<1, 2>>, score) THEN "medium"
    ELSE "low"

\* The pattern of _extract_condition_columns, character by character:
\*   \b([a-zA-Z_][\w\.]*?)\b\s*(=|>=|<=|<>|!=|>|<|LIKE|ILIKE|IN|ANY|\bIS\b)
\* [a-zA-Z_]
NameStartChars == CharsOf(LowerLetters) \cup CharsOf(UpperLetters) \cup {"_"}
IsNameStart(c) == c \in NameStartChars

\* \w
WordChars == NameStartChars \cup CharsOf(Digits)
IsWordChar(c) == c \in WordChars

\* \s
IsBlankChar(c) == c \in {" ", "\t", "\n", "\r"}

\* Whether the character at place i of s is one of \w; none is outside s
WordAt(s, i) == i >= 1 /\ i <= Len(s) /\ IsWordChar(CharAt(s, i))

\* \b before the character at place i
BoundaryAt(s, i) == WordAt(s, i - 1) # WordAt(s, i)

\* Group 2 at place k: the place after the first alternative that matches
\* there, 0 when none does
OperatorEnd(s, k) ==
    CASE HoldsAt(s, k, "=") -> k + 1
      [] HoldsAt(s, k, ">=") -> k + 2
      [] HoldsAt(s, k, "<=") -> k + 2
      [] HoldsAt(s, k, "<>") -> k + 2
      [] HoldsAt(s, k, "!=") -> k + 2
      [] HoldsAt(s, k, ">") -> k + 1
      [] HoldsAt(s, k, "<") -> k + 1
      [] HoldsAt(s, k, "LIKE") -> k + 4
      [] HoldsAt(s, k, "ILIKE") -> k + 5
      [] HoldsAt(s, k, "IN") -> k + 2
      [] HoldsAt(s, k, "ANY") -> k + 3
      [] HoldsAt(s, k, "IS") /\ BoundaryAt(s, k) /\ BoundaryAt(s, k + 2) -> k + 2
      [] OTHER -> 0

\* \s* from place k on
RECURSIVE SkipBlankChars(_, _)
SkipBlankChars(s, k) ==
    IF k <= Len(s) /\ IsBlankChar(CharAt(s, k)) THEN SkipBlankChars(s, k + 1) ELSE k

\* Group 1 from place i on, tried from the shortest ([\w\.]*? is lazy): the
\* place of its last character in the first try after which \b, \s* and an
\* operator follow, 0 when there is none
RECURSIVE NameEnd(_, _, _)
NameEnd(s, i, j) ==
    IF j > Len(s) THEN 0
    ELSE IF j > i /\ ~IsWordChar(CharAt(s, j)) /\ CharAt(s, j) # "." THEN 0
    ELSE IF BoundaryAt(s, j + 1) /\ OperatorEnd(s, SkipBlankChars(s, j + 1)) > 0 THEN j
    ELSE NameEnd(s, i, j + 1)

RECURSIVE UpperAll(_)
UpperAll(s) == IF s = "" THEN "" ELSE UpperOf(CharAt(s, 1)) \o UpperAll(SubSeq(s, 2, Len(s)))

\* column.split(".")[-1]
RECURSIVE LastPart(_)
LastPart(column) ==
    IF \E i \in 1..Len(column) : CharAt(column, i) = "."
    THEN LastPart(SubSeq(column, PlaceIn(column, ".") + 1, Len(column)))
    ELSE column

\* column.upper() in {"TRUE", "FALSE", "NULL"}
IsLiteralWord(column) == UpperAll(column) \in {"TRUE", "FALSE", "NULL"}

\* \s* on the tokens of an SQL text
RECURSIVE SkipBlanks(_, _)
SkipBlanks(pieces, i) ==
    IF i <= Len(pieces) /\ pieces[i] \in {" ", "\n"} THEN SkipBlanks(pieces, i + 1) ELSE i

\* pattern.finditer from place i on: the matches do not overlap
RECURSIVE MatchColumns(_, _)
MatchColumns(s, i) ==
    IF i > Len(s) THEN <<>>
    ELSE IF ~(IsNameStart(CharAt(s, i)) /\ BoundaryAt(s, i)) THEN MatchColumns(s, i + 1)
    ELSE LET last == NameEnd(s, i, i)
             column == SubSeq(s, i, last)
             after == OperatorEnd(s, SkipBlankChars(s, last + 1))
         IN  IF last = 0 THEN MatchColumns(s, i + 1)
             ELSE (IF IsLiteralWord(column) THEN <<>> ELSE <<LastPart(column)>>)
                    \o MatchColumns(s, after)

_extract_condition_columns(condition) ==
    IF ~Truthy(condition) THEN <<>>
    ELSE MatchColumns(condition.v, 1)

\* list(dict.fromkeys(columns)): first occurrences, in order
RECURSIVE FromKeys(_, _)
FromKeys(columns, kept) ==
    IF columns = <<>> THEN kept
    ELSE IF \E i \in 1..Len(kept) : kept[i] = Head(columns)
    THEN FromKeys(Tail(columns), kept)
    ELSE FromKeys(Tail(columns), Append(kept, Head(columns)))

\* re.sub(r"[^a-z0-9_]+", "_", name.lower()): every run of characters
\* other than a-z, 0-9 and _ becomes one "_"
SafeChars == CharsOf(LowerLetters) \cup CharsOf(Digits) \cup {"_"}
IsSafeChar(c) == c \in SafeChars

RECURSIVE SafeFrom(_, _)
SafeFrom(name, i) ==
    IF i > Len(name) THEN ""
    ELSE IF IsSafeChar(LowerOf(CharAt(name, i)))
    THEN LowerOf(CharAt(name, i)) \o SafeFrom(name, i + 1)
    ELSE IF i > 1 /\ ~IsSafeChar(LowerOf(CharAt(name, i - 1))) THEN SafeFrom(name, i + 1)
    ELSE "_" \o SafeFrom(name, i + 1)

SafeName(name) == SafeFrom(name, 1)

RECURSIVE SafeNames(_)
SafeNames(columns) ==
    IF columns = <<>> THEN <<>> ELSE <<SafeName(Head(columns))>> \o SafeNames(Tail(columns))

_index_name(table, columns) ==
    "idx_" \o SafeName(table) \o "_"
      \o (IF Join("_", SafeNames(columns)) # "" THEN Join("_", SafeNames(columns))
          ELSE "cols")

_make_index_suggestion(table, columns, reason) ==
    [table |-> table,
     columns |-> columns,
     sql |-> "CREATE INDEX CONCURRENTLY IF NOT EXISTS " \o _index_name(table, columns)
               \o " ON " \o table \o " (" \o Join(", ", columns) \o ");",
     reason |-> reason]

Finding(code, title, score, impact, remediation, evidence) ==
    [code |-> code, title |-> title, severity |-> _severity_from_score(score),
     score |-> score, impact |-> impact, remediation |-> remediation,
     evidence |-> evidence]

\* A rule that gives nothing
None == <<>>

\* rows = node.actual_total_rows or node.plan_rows or 0
EffectiveRows(node) == PyOr(node.actual_total_rows, PyOr(node.plan_rows, JInt(0))).v

\* table = node.relation_name or node.alias or "table"
TableOf(node) == PyOr(node.relation_name, PyOr(node.alias, JStr("table"))).v

\* _seq_scan_findings that reports nothing when the filter yields no column.
_seq_scan_findings_NeedsColumns(node, path) ==
    IF ~Contains("seq scan", LowerStr(node.node_type.v)) THEN <<None, None>>
    ELSE IF EffectiveRows(node) < SEQ_SCAN_ROW_THRESHOLD THEN <<None, None>>
    ELSE IF _extract_condition_columns(node.filter) = <<>> THEN <<None, None>>
    ELSE LET rows == EffectiveRows(node)
             columns == IF _extract_condition_columns(node.filter) # <<>>
                        THEN _extract_condition_columns(node.filter)
                        ELSE _extract_condition_columns(node.index_cond)
         IN  << <<Finding("SEQ_SCAN_LARGE",
                          "Sequential scan on " \o TableOf(node),
                          FracMin(One, Frac(rows, SEQ_SCAN_ROW_THRESHOLD * 4)),
                          "Reads ~" \o ToString(rows) \o " rows via sequential scan.",
                          "Add a selective index or tighten WHERE clause.",
                          [rows |-> rows, path |-> Join(" > ", path)])>>,
                IF columns # <<>> /\ Truthy(node.relation_name)
                THEN <<_make_index_suggestion(
                         node.relation_name.v, FromKeys(columns, <<>>),
                         "Accelerate the scan with an index covering filter columns.")>>
                ELSE None >>

\* _seq_scan_findings: <<finding or None, suggestion or None>>
_seq_scan_findings(node, path) ==
    IF ~Contains("seq scan", LowerStr(node.node_type.v)) THEN <<None, None>>
    ELSE IF EffectiveRows(node) < SEQ_SCAN_ROW_THRESHOLD THEN <<None, None>>
    ELSE LET rows == EffectiveRows(node)
             columns == IF _extract_condition_columns(node.filter) # <<>>
                        THEN _extract_condition_columns(node.filter)
                        ELSE _extract_condition_columns(node.index_cond)
         IN  << <<Finding("SEQ_SCAN_LARGE",
                          "Sequential scan on " \o TableOf(node),
                          FracMin(One, Frac(rows, SEQ_SCAN_ROW_THRESHOLD * 4)),
                          "Reads ~" \o ToString(rows) \o " rows via sequential scan.",
                          "Add a selective index or tighten WHERE clause.",
                          [rows |-> rows, path |-> Join(" > ", path)])>>,
                IF columns # <<>> /\ Truthy(node.relation_name)
                THEN <<_make_index_suggestion(
                         node.relation_name.v, FromKeys(columns, <<>>),
                         "Accelerate the scan with an index covering filter columns.")>>
                ELSE None >>

_nested_loop_findings(node, path) ==
    IF LowerStr(node.node_type.v) # "nested loop" \/ Len(node.children) < 2 THEN None
    ELSE LET outer_rows == EffectiveRows(node.children[1]) IN
         IF outer_rows < NESTED_LOOP_OUTER_THRESHOLD THEN None
         ELSE <<Finding("NESTED_LOOP_HUGE_OUTER",
                        "Nested loop with very large outer side",
                        FracMin(One, Frac(outer_rows, NESTED_LOOP_OUTER_THRESHOLD * 3)),
                        "Outer side produces ~" \o ToString(outer_rows)
                          \o " rows; nested loop likely multiplies cost.",
                        "Consider hash/merge join, indexes on join keys, or reducing outer rows.",
                        [outer_rows |-> outer_rows,
                         inner_type |-> LowerStr(node.children[2].node_type.v),
                         path |-> Join(" > ", path)])>>

_sort_spill_findings(node, path) ==
    IF ~Contains("sort", LowerStr(node.node_type.v)) THEN None
    ELSE LET buffers == IF Truthy(node.buffers) THEN node.buffers.v ELSE EmptyDict
             temp_reads == PyOr(Get(buffers, "Temp Read Blocks"), JInt(0))
             temp_written == PyOr(Get(buffers, "Temp Written Blocks"), JInt(0))
             by_type == Truthy(node.sort_space_type)
                          /\ LowerStr(node.sort_space_type.v) \in {"disk", "external"}
             by_method == Truthy(node.sort_method)
                          /\ Contains("disk", LowerStr(node.sort_method.v))
             used_disk == by_type \/ by_method \/ Truthy(temp_reads) \/ Truthy(temp_written)
         IN  IF ~used_disk THEN None
             ELSE <<Finding("SORT_SPILL", "Sort spilled to disk", <<13, 20>>,
                            "External sort likely spilled to disk, increasing I/O.",
                            "Reduce sort width, add indexes to satisfy ORDER BY, or increase work_mem.",
                            [sort_method |-> node.sort_method,
                             sort_space_type |-> node.sort_space_type,
                             temp_read_blocks |-> temp_reads,
                             temp_written_blocks |-> temp_written,
                             path |-> Join(" > ", path)])>>

\* _misestimate_findings that begins above the ratio of 10.
_misestimate_findings_Above(node, path) ==
    IF node.plan_rows = JNull \/ node.actual_total_rows = JNull THEN None
    ELSE LET plan_rows == Max(1, node.plan_rows.v)
             actual_rows == Max(1, node.actual_total_rows.v)
         IN  \* ratio < 10 and 1 / ratio < 10, ratio = actual_rows / plan_rows
             IF actual_rows <= MIS_ESTIMATE_RATIO * plan_rows
                  /\ plan_rows <= MIS_ESTIMATE_RATIO * actual_rows
             THEN None
             ELSE <<Finding("ROW_MISESTIMATE", "Row count mis-estimation",
                            FracMin(One, Frac(Max(actual_rows, plan_rows),
                                              Min(actual_rows, plan_rows)
                                                * MIS_ESTIMATE_RATIO * 3)),
                            "Planner expected ~" \o ToString(plan_rows)
                              \o " rows but saw ~" \o ToString(actual_rows) \o ".",
                            "Refresh statistics or add more selective filters/indexes.",
                            [plan_rows |-> plan_rows, actual_rows |-> actual_rows,
                             path |-> Join(" > ", path)])>>

_misestimate_findings(node, path) ==
    IF node.plan_rows = JNull \/ node.actual_total_rows = JNull THEN None
    ELSE LET plan_rows == Max(1, node.plan_rows.v)
             actual_rows == Max(1, node.actual_total_rows.v)
         IN  \* ratio < 10 and 1 / ratio < 10, ratio = actual_rows / plan_rows
             IF actual_rows < MIS_ESTIMATE_RATIO * plan_rows
                  /\ plan_rows < MIS_ESTIMATE_RATIO * actual_rows
             THEN None
             ELSE <<Finding("ROW_MISESTIMATE", "Row count mis-estimation",
                            FracMin(One, Frac(Max(actual_rows, plan_rows),
                                              Min(actual_rows, plan_rows)
                                                * MIS_ESTIMATE_RATIO * 3)),
                            "Planner expected ~" \o ToString(plan_rows)
                              \o " rows but saw ~" \o ToString(actual_rows) \o ".",
                            "Refresh statistics or add more selective filters/indexes.",
                            [plan_rows |-> plan_rows, actual_rows |-> actual_rows,
                             path |-> Join(" > ", path)])>>

\* _missing_index_findings that suggests the columns as extracted, repeats
\* included.
_missing_index_findings_Repeats(node, path) ==
    IF ~Contains("seq scan", LowerStr(node.node_type.v)) THEN <<None, None>>
    ELSE IF Truthy(node.index_cond) THEN <<None, None>>
    ELSE IF EffectiveRows(node) < SEQ_SCAN_ROW_THRESHOLD THEN <<None, None>>
    ELSE IF ~Truthy(node.filter) THEN <<None, None>>
    ELSE IF _extract_condition_columns(node.filter) = <<>> THEN <<None, None>>
    ELSE << <<Finding("MISSING_INDEX",
                      "Possible missing index on " \o TableOf(node),
                      <<3, 4>>,
                      "Filter executes as sequential scan on ~"
                        \o ToString(EffectiveRows(node)) \o " rows.",
                      "Create an index on frequently filtered columns.",
                      [filter |-> node.filter, path |-> Join(" > ", path)])>>,
            IF Truthy(node.relation_name)
            THEN <<_make_index_suggestion(
                     node.relation_name.v,
                     _extract_condition_columns(node.filter),
                     "Cover filter columns to avoid full table scan.")>>
            ELSE None >>

\* _missing_index_findings: <<finding or None, suggestion or None>>
_missing_index_findings(node, path) ==
    IF ~Contains("seq scan", LowerStr(node.node_type.v)) THEN <<None, None>>
    ELSE IF Truthy(node.index_cond) THEN <<None, None>>
    ELSE IF EffectiveRows(node) < SEQ_SCAN_ROW_THRESHOLD THEN <<None, None>>
    ELSE IF ~Truthy(node.filter) THEN <<None, None>>
    ELSE IF _extract_condition_columns(node.filter) = <<>> THEN <<None, None>>
    ELSE << <<Finding("MISSING_INDEX",
                      "Possible missing index on " \o TableOf(node),
                      <<3, 4>>,
                      "Filter executes as sequential scan on ~"
                        \o ToString(EffectiveRows(node)) \o " rows.",
                      "Create an index on frequently filtered columns.",
                      [filter |-> node.filter, path |-> Join(" > ", path)])>>,
            IF Truthy(node.relation_name)
            THEN <<_make_index_suggestion(
                     node.relation_name.v,
                     FromKeys(_extract_condition_columns(node.filter), <<>>),
                     "Cover filter columns to avoid full table scan.")>>
            ELSE None >>

_wide_row_findings(node, path) ==
    IF node.plan_width = JNull \/ node.plan_width.v < WIDE_ROW_WIDTH THEN None
    ELSE IF EffectiveRows(node) * 5 < SEQ_SCAN_ROW_THRESHOLD THEN None
    ELSE <<Finding("WIDE_ROW_FETCH", "Wide rows fetched", <<9, 20>>,
                   "Plan width ~" \o ToString(node.plan_width.v) \o " bytes across ~"
                     \o ToString(EffectiveRows(node)) \o " rows.",
                   "Select only needed columns or add narrower covering index.",
                   [plan_width |-> node.plan_width.v, rows |-> EffectiveRows(node),
                    path |-> Join(" > ", path)])>>

\* The key of the loop of lines 284-291
SuggestionKey(suggestion) == <<suggestion.table, suggestion.columns>>

\* Dedup keyed on the table and the set of columns.
Dedup_ByColumnSet(index_suggestions, deduped) ==
    LET Key(s) == <<s.table, {s.columns[i] : i \in 1..Len(s.columns)}>>
        Keep[k \in 0..Len(index_suggestions)] ==
          IF k = 0 THEN <<>>
          ELSE IF \E i \in 1..Len(Keep[k - 1]) :
                    Key(Keep[k - 1][i]) = Key(index_suggestions[k])
          THEN Keep[k - 1]
          ELSE Append(Keep[k - 1], index_suggestions[k])
    IN  deduped \o Keep[Len(index_suggestions)]

\* The loop of lines 284-291: a suggestion is kept unless one with its key
\* was kept before it.
RECURSIVE Dedup(_, _)
Dedup(index_suggestions, deduped) ==
    IF index_suggestions = <<>> THEN deduped
    ELSE IF \E i \in 1..Len(deduped) :
              SuggestionKey(deduped[i]) = SuggestionKey(Head(index_suggestions))
    THEN Dedup(Tail(index_suggestions), deduped)
    ELSE Dedup(Tail(index_suggestions), Append(deduped, Head(index_suggestions)))

\* The findings of one node, in the order the rules run (lines 255-281)
NodeFindings(node, path) ==
    _seq_scan_findings(node, path)[1]
      \o _nested_loop_findings(node, path)
      \o _sort_spill_findings(node, path)
      \o _misestimate_findings(node, path)
      \o _missing_index_findings(node, path)[1]
      \o _wide_row_findings(node, path)

\* The index suggestions of one node, in the order they are appended
NodeSuggestions(node, path) ==
    _seq_scan_findings(node, path)[2] \o _missing_index_findings(node, path)[2]

RECURSIVE CollectFindings(_)
CollectFindings(walk) ==
    IF walk = <<>> THEN <<>>
    ELSE NodeFindings(Head(walk).node, Head(walk).path) \o CollectFindings(Tail(walk))

RECURSIVE CollectSuggestions(_)
CollectSuggestions(walk) ==
    IF walk = <<>> THEN <<>>
    ELSE NodeSuggestions(Head(walk).node, Head(walk).path)
           \o CollectSuggestions(Tail(walk))

\* evaluate_plan(root, sql): sql is not read
evaluate_plan(root) ==
    [findings |-> CollectFindings(walk_plan(root, <<>>)),
     index_suggestions |-> Dedup(CollectSuggestions(walk_plan(root, <<>>)), <<>>)]

---------------------------------------------------------------------------
(* heuristics/score.py *)

\* Whether a finding already ranked stays ahead of a later one, with the
\* test made strict: a later finding of equal score overtakes.
StaysAhead_Strict(earlier, later) == FracLess(later.score, earlier.score)

\* Whether a finding already ranked stays ahead of a later one of the
\* input: sorted(..., reverse=True) is stable, so it does unless the later
\* one has the greater score.
StaysAhead(earlier, later) == ~FracLess(earlier.score, later.score)

\* The place of a finding in the list ranked so far
RECURSIVE InsertRanked(_, _)
InsertRanked(ranked, f) ==
    IF ranked = <<>> THEN <<f>>
    ELSE IF StaysAhead(Head(ranked), f) THEN <<Head(ranked)>> \o InsertRanked(Tail(ranked), f)
    ELSE <<f>> \o ranked

RECURSIVE SortedByScore(_, _)
SortedByScore(rest, ranked) ==
    IF rest = <<>> THEN ranked
    ELSE SortedByScore(Tail(rest), InsertRanked(ranked, Head(rest)))

rank_findings(found) ==
    LET ranked == SortedByScore(found, <<>>) IN
    [ranked |-> ranked,
     primary |-> IF ranked # <<>> THEN JStr(ranked[1].title) ELSE JNull]

---------------------------------------------------------------------------
(* anti_patterns.py, on the tokens of the SQL text *)

_strip_sql_comments(text) == StripBlockComments(StripLineComments(text))

LowerAll(text) == [i \in 1..Len(text) |-> Lower(text[i])]

\* Three tokens in a row
HasRun(text, a, b, c) ==
    \E i \in 1..Len(text) :
      i + 2 <= Len(text) /\ text[i] = a /\ text[i + 1] = b /\ text[i + 2] = c

\* normalized.strip().startswith("explain")
StartsWithExplain(text) ==
    LET first == SkipBlanks(text, 1) IN first <= Len(text) /\ text[first] = "explain"

WhereFunctions == {"lower", "upper", "date_trunc", "trim", "substr", "substring", "coalesce"}

\* \bwhere\b[^;]*\b(lower|...)\s*\(
HasFunctionInWhere(text) ==
    \E i \in 1..Len(text) : \E j \in 1..Len(text) :
      /\ i < j
      /\ text[i] = "where"
      /\ i > 1 => ~IsWord(text[i - 1])
      /\ ~IsWord(text[i + 1])
      /\ \A k \in (i + 1)..(j - 1) : text[k] # ";"
      /\ text[j] \in WhereFunctions
      /\ ~IsWord(text[j - 1])
      /\ SkipBlanks(text, j + 1) <= Len(text)
      /\ text[SkipBlanks(text, j + 1)] = "("

\* in_pattern, \bin\s*\(([^)]+)\), tried at token i: the place of the
\* closing ")" of the match, 0 when there is no match at i.
InListClose(text, i) ==
    LET open == SkipBlanks(text, i + 1)
        close == IF open <= Len(text) THEN IndexOf(text, ")", open) ELSE 0
    IN  IF /\ text[i] = "in"
           /\ i > 1 => ~IsWord(text[i - 1])
           /\ open <= Len(text) /\ text[open] = "("
           /\ close > open + 1
        THEN close ELSE 0

\* len(items) with one piece fewer than split(",") returns.
InListItems_Commas(text, i) ==
    IF InListClose(text, i) = 0 THEN 0
    ELSE Cardinality({k \in SkipBlanks(text, i + 1)..InListClose(text, i) :
                        text[k] = ","})

\* len(match.group(1).split(",")) for the match at token i: 0 when none
\* starts there, else the number of comma-separated pieces up to the ")".
InListItems(text, i) ==
    IF InListClose(text, i) = 0 THEN 0
    ELSE 1 + Cardinality({k \in SkipBlanks(text, i + 1)..InListClose(text, i) :
                            text[k] = ","})

LargeInItems == 20

LargeInWarning ==
    "Large IN list; consider temporary table or JOIN to avoid bloated predicates."

\* The loop over the matches with its break left out.
RECURSIVE LargeInFindings_NoBreak(_, _)
LargeInFindings_NoBreak(text, i) ==
    IF i > Len(text) THEN <<>>
    ELSE IF InListItems(text, i) = 0 THEN LargeInFindings_NoBreak(text, i + 1)
    ELSE (IF InListItems(text, i) > LargeInItems THEN <<LargeInWarning>> ELSE <<>>)
           \o LargeInFindings_NoBreak(text, InListClose(text, i) + 1)

\* for match in in_pattern.finditer(normalized): the matches from token i
\* on, none overlapping the one before; the first oversized one appends
\* the warning and ends the loop.
RECURSIVE LargeInFindings(_, _)
LargeInFindings(text, i) ==
    IF i > Len(text) THEN <<>>
    ELSE IF InListItems(text, i) = 0 THEN LargeInFindings(text, i + 1)
    ELSE IF InListItems(text, i) > LargeInItems THEN <<LargeInWarning>>
    ELSE LargeInFindings(text, InListClose(text, i) + 1)

detect_anti_patterns(text) ==
    LET normalized == LowerAll(_strip_sql_comments(text)) IN
    (IF HasRun(normalized, "select", " ", "*")
     THEN <<"SELECT * returns wide rows; project only needed columns.">> ELSE <<>>)
    \o (IF ~HasRun(normalized, " ", "limit", " ") /\ ~StartsWithExplain(normalized)
        THEN <<"Missing LIMIT clause may scan more rows than necessary.">> ELSE <<>>)
    \o (IF HasFunctionInWhere(normalized)
        THEN <<"Functions in WHERE can prevent index usage; precompute or index computed column.">>
        ELSE <<>>)
    \o (IF \E i \in 1..Len(normalized) : normalized[i] = "::"
        THEN <<"Implicit casts detected; align column and literal types to avoid casted scans.">>
        ELSE <<>>)
    \o LargeInFindings(normalized, 1)

---------------------------------------------------------------------------
(* llm/__init__.py, llm/parser.py, llm/types.py *)

LlmSuggestion(summary, rewrite_sql, notes, confidence, error, used) ==
    [summary |-> summary, rewrite_sql |-> rewrite_sql, notes |-> notes,
     confidence |-> confidence, error |-> error, used |-> used]

\* str.strip() of a note or summary line
StripStr(line) == IF line \in {" ", "  "} THEN "" ELSE line

\* str.strip() of a text: the blanks at both ends go
RECURSIVE StripLeft(_)
StripLeft(text) ==
    IF text # <<>> /\ IsSpace(Head(text)) THEN StripLeft(Tail(text)) ELSE text

StripText(text) == Reversed(StripLeft(Reversed(StripLeft(text))))

RECURSIVE StrippedLines(_)
StrippedLines(items) ==
    IF items = <<>> THEN <<>>
    ELSE (IF Head(items).t = "str" /\ StripStr(Head(items).v) # ""
          THEN <<StripStr(Head(items).v)>> ELSE <<>>)
           \o StrippedLines(Tail(items))

_to_string_list(value) == IF value.t # "list" THEN <<>> ELSE StrippedLines(value.v)

\* float(confidence), 0.3 on TypeError / ValueError, then
\* max(0.0, min(1.0, value)); min keeps 1.0 against a NaN.
LlmConfidence(raw) ==
    LET value == CASE raw.t = "int" -> <<raw.v, 1>>
                   [] raw.t = "bool" -> <<IF raw.v THEN 1 ELSE 0, 1>>
                   [] raw.t = "float" -> raw.v
                   [] raw.t \in {"inf", "nan"} -> <<1, 1>>
                   [] raw.t = "str" /\ FloatOfStr(raw.v) # <<>> -> FloatOfStr(raw.v)[1].v
                   [] OTHER -> <<3, 10>>
    IN  IF value[1] < 0 THEN <<0, 1>>
        ELSE IF FracLess(One, value) THEN One
        ELSE Frac(value[1], value[2])

\* parse_llm_response from the decoded payload on
ParsePayload(payload) ==
    LET raw == Get(payload, "rewrite_sql")
        rewrite_sql == IF raw.t = "text" /\ StripText(raw.v) # <<>>
                       THEN JText(StripText(raw.v)) ELSE JNull
    IN  LlmSuggestion(_to_string_list(Get(payload, "summary")), rewrite_sql,
                      _to_string_list(Get(payload, "notes")),
                      LlmConfidence(Get(payload, "confidence")), JNull, TRUE)

LlmError(error, used) == LlmSuggestion(<<>>, JNull, <<>>, <<0, 1>>, JStr(error), used)

\* generate_llm_suggestions by what the provider does: there is none, it
\* fails, or it answers with a text whose JSON part is missing, broken,
\* not an object, or a payload.
generate_llm_suggestions(response) ==
    CASE response.kind = "no provider" -> LlmError("LLM provider not configured", FALSE)
      [] response.kind = "provider error" -> LlmError("LLM provider error: timeout", TRUE)
      [] response.kind = "no json" -> LlmError("LLM response did not contain JSON", TRUE)
      [] response.kind = "bad json" ->
           LlmError("LLM response JSON parse error: Expecting value", TRUE)
      [] response.kind = "not object" ->
           LlmError("LLM response JSON was not an object", TRUE)
      [] OTHER -> ParsePayload(response.payload)

---------------------------------------------------------------------------
(* analyzer.py *)

\* The work-list replaced by the children of the popped node.
RECURSIVE HasActualRows_Replaced(_)
HasActualRows_Replaced(stack) ==
    IF stack = <<>> THEN FALSE
    ELSE LET node == stack[Len(stack)] IN
         IF node.actual_rows # JNull \/ node.actual_total_rows # JNull THEN TRUE
         ELSE HasActualRows_Replaced(node.children)

\* _infer_missing_data: the work-list pops its last node
RECURSIVE HasActualRows(_)
HasActualRows(stack) ==
    IF stack = <<>> THEN FALSE
    ELSE LET node == stack[Len(stack)] IN
         IF node.actual_rows # JNull \/ node.actual_total_rows # JNull THEN TRUE
         ELSE HasActualRows(SubSeq(stack, 1, Len(stack) - 1) \o node.children)

_infer_missing_data(root) ==
    IF HasActualRows(<<root>>) THEN <<>> ELSE <<"actual_rows">>

\* confidence_score with the penalty added in place of subtracted.
confidence_score_Added(missing) == Max(30, Min(95, 70 + 10 * missing))

\* Lines 34-37, in hundredths: 0.7, less 0.1 for each entry of
\* missing_data, held between 0.3 and 0.95.
confidence_score(missing) == Max(30, Min(95, 70 - 10 * missing))

Confidence(missing_data) ==
    [overall |-> confidence_score(Len(missing_data)), missing_data |-> missing_data]

RewriteSuggestion(suggestion) ==
    [title |-> "Proposed rewrite",
     sql |-> suggestion.rewrite_sql,
     rationale |-> IF suggestion.notes # <<>> THEN JStr(Join("; ", suggestion.notes))
                   ELSE JNull,
     notes |-> suggestion.notes,
     confidence |-> suggestion.confidence]

\* The rewrite of the output, whatever the guardrail said.
SurfacedRewrite_Unguarded(suggestion, verdict) ==
    IF Truthy(suggestion.rewrite_sql) THEN <<RewriteSuggestion(suggestion)>> ELSE None

\* Lines 58-68: the rewrite of the output, None unless the guardrail
\* allowed the candidate.
SurfacedRewrite(suggestion, verdict) ==
    IF Truthy(suggestion.rewrite_sql) /\ verdict.allowed
    THEN <<RewriteSuggestion(suggestion)>>
    ELSE None

\* Lines 69-77
RewriteExplanation(enabled, suggestion, verdict) ==
    IF ~enabled THEN JStr("LLM disabled for current settings.")
    ELSE IF Truthy(suggestion.rewrite_sql)
    THEN IF verdict.allowed THEN JNull
         ELSE PyOr(verdict.reason, JStr("Rewrite blocked by guardrails."))
    ELSE IF Truthy(suggestion.error) THEN suggestion.error
    ELSE IF suggestion.notes # <<>> THEN JStr(suggestion.notes[1])
    ELSE JNull

\* The guard_rewrite call of line 59, made only for a candidate rewrite
GuardCall(enabled, suggestion, keywords, parsing) ==
    IF enabled /\ Truthy(suggestion.rewrite_sql)
    THEN guard_rewrite(suggestion.rewrite_sql.v, keywords, parsing)
    ELSE NotGuarded

\* analyze(sql, explain_json, llm_enabled), from the outcome root of the
\* parse_explain_json call of line 29 on; suggestion is what
\* generate_llm_suggestions gives when it is called.
analyze(text, root, enabled, suggestion, keywords, parsing) ==
    IF root.exc # "none" THEN root
    ELSE LET evaluated == evaluate_plan(root.value)
             ranked == rank_findings(evaluated.findings)
             verdict == GuardCall(enabled, suggestion, keywords, parsing)
         IN  Return(
               [primary_bottleneck |-> ranked.primary,
                findings |-> ranked.ranked,
                suggested_indexes |-> evaluated.index_suggestions,
                suggested_rewrite |->
                    IF enabled THEN SurfacedRewrite(suggestion, verdict) ELSE None,
                suggested_rewrite_explanation |->
                    RewriteExplanation(enabled, suggestion, verdict),
                plain_summary |-> IF enabled THEN suggestion.summary ELSE <<>>,
                anti_patterns |-> detect_anti_patterns(text),
                confidence |-> Confidence(_infer_missing_data(root.value)),
                llm_used |-> enabled /\ suggestion.used])

---------------------------------------------------------------------------
(* Measures of a raw plan and of a normalized tree *)

RECURSIVE SumSeq(_)
SumSeq(ns) == IF ns = <<>> THEN 0 ELSE Head(ns) + SumSeq(Tail(ns))

RECURSIVE MaxSeq(_)
MaxSeq(ns) == IF ns = <<>> THEN 0 ELSE Max(Head(ns), MaxSeq(Tail(ns)))

\* The plan objects under a raw plan: the dict items of its "Plans" list.
RawChildren(plan) ==
    LET items == IterItems(PyOr(Get(plan.v, "Plans"), JList(<<>>)))
    IN  SelectSeq(items, LAMBDA c : c.t = "dict")

RECURSIVE RawSize(_)
RawSize(plan) ==
    LET kids == RawChildren(plan)
    IN  1 + SumSeq([i \in 1..Len(kids) |-> RawSize(kids[i])])

\* Depth of the deepest plan object below the root of plan (the root is 0).
RECURSIVE RawDepth(_)
RawDepth(plan) ==
    LET kids == RawChildren(plan)
    IN  IF kids = <<>> THEN 0
        ELSE 1 + MaxSeq([i \in 1..Len(kids) |-> RawDepth(kids[i])])

RECURSIVE NodeCount(_)
NodeCount(node) ==
    1 + SumSeq([i \in 1..Len(node.children) |-> NodeCount(node.children[i])])

RECURSIVE NodeDepth(_)
NodeDepth(node) ==
    IF node.children = <<>> THEN 0
    ELSE 1 + MaxSeq([i \in 1..Len(node.children) |-> NodeDepth(node.children[i])])

\* Every node of a normalized tree, in pre-order.
RECURSIVE Nodes(_)
RECURSIVE NodesOfAll(_)
NodesOfAll(trees) ==
    IF trees = <<>> THEN <<>> ELSE Nodes(Head(trees)) \o NodesOfAll(Tail(trees))
Nodes(node) == <<node>> \o NodesOfAll(node.children)

\* The entries of an input as a sequence (an object input is its one entry).
Entries(json) == IF json.t = "list" THEN json.v ELSE <<json>>

IsPlanEntry(e) == e.t = "dict" /\ "Plan" \in DOMAIN e.v /\ e.v["Plan"].t = "dict"

\* An input the parser has no structural objection to: an object, or a
\* non-empty array of objects, each holding a plan object under "Plan".
StructurallyValid(json) ==
    /\ json.t \in {"list", "dict"}
    /\ Entries(json) # <<>>
    /\ \A i \in 1..Len(Entries(json)) : IsPlanEntry(Entries(json)[i])

\* The plan objects of the input, summed over its entries.
TotalPlanObjects(json) ==
    LET es == SelectSeq(Entries(json), IsPlanEntry)
    IN  SumSeq([i \in 1..Len(es) |-> RawSize(es[i].v["Plan"])])

\* The deepest plan object of the input below its entry root.
DeepestPlanObject(json) ==
    LET es == SelectSeq(Entries(json), IsPlanEntry)
    IN  MaxSeq([i \in 1..Len(es) |-> RawDepth(es[i].v["Plan"])])

---------------------------------------------------------------------------
(* Inputs of the budget checks: every input whose entries hold at most     *)
(* MaxPlanObjects plan objects in all, with or without metadata beside     *)
(* "Plan", and with the entries the parser rejects.                        *)

MaxPlanObjects == 4
MaxNodesArg == 4
MaxDepthArg == 2

\* The defaults of parse_explain_json's keyword arguments.

PlanObj(kids) ==
    IF kids = <<>> THEN JDict("Node Type" :> JStr("Seq Scan"))
    ELSE JDict(("Node Type" :> JStr("Nested Loop")) @@ ("Plans" :> JList(kids)))

\* The sequences of plan trees that hold n plan objects in all.
RECURSIVE PlanForests(_)
PlanForests(n) ==
    IF n = 0 THEN {<<>>}
    ELSE UNION {{<<PlanObj(kids)>> \o rest :
                    kids \in PlanForests(k - 1), rest \in PlanForests(n - k)} :
                k \in 1..n}

PlanTrees(n) == {PlanObj(kids) : kids \in PlanForests(n - 1)}

Metas == {EmptyDict, "Planning Time" :> JInt(1)}

BadEntries == {JInt(0), JDict("Planning Time" :> JInt(1))}

EntriesOfWeight(k) ==
    {JDict(("Plan" :> t) @@ m) : t \in PlanTrees(k), m \in Metas}
      \cup (IF k = 1 THEN BadEntries ELSE {})

RECURSIVE EntryLists(_)
EntryLists(n) ==
    IF n = 0 THEN {<<>>}
    ELSE UNION {{<<e>> \o rest : e \in EntriesOfWeight(k), rest \in EntryLists(n - k)} :
                k \in 1..n}

BudgetInputs ==
    UNION {{JList(es) : es \in EntryLists(n)} \cup EntriesOfWeight(n) :
           n \in 0..MaxPlanObjects}
      \cup {JStr("plan"), JNull}

---------------------------------------------------------------------------
(* The call parse_explain_json(explain_json, max_nodes=..., max_depth=...) *)

\* Values of the variables a call has not written yet, or does not use
NotParsed == Raise("pending", "")
NoSuggestion ==
    [summary |-> <<>>, rewrite_sql |-> JNull, notes |-> <<>>, confidence |-> 0,
     error |-> JNull, used |-> FALSE]
NoOutput == Raise("pending", "")
NoReply == [status_code |-> 0, code |-> "pending", message |-> ""]
NotRanked == [ranked |-> <<>>, primary |-> JStr("pending")]

IdleParser ==
    /\ explain_json = JNull
    /\ max_nodes = DefaultMaxNodes
    /\ max_depth = DefaultMaxDepth
    /\ parsed = NotParsed

IdleGuard ==
    /\ sql = <<>>
    /\ order = SourceOrder
    /\ parse = ParseRaised("")
    /\ guard = NotGuarded

IdleAnalyze ==
    /\ llm_enabled = FALSE
    /\ llm_suggestion = NoSuggestion
    /\ output = NoOutput
    /\ reply = NoReply

IdleRank ==
    /\ findings = <<>>
    /\ ranking = NotRanked

ParseExplainJson ==
    /\ pc = "ready"
    /\ parsed' = parse_explain_json(explain_json, max_nodes, max_depth)
    /\ pc' = "done"
    /\ UNCHANGED <<explain_json, max_nodes, max_depth>>
    /\ UNCHANGED <<guard_vars, analyze_vars, rank_vars>>

InitParse ==
    /\ pc = "ready"
    /\ explain_json \in BudgetInputs
    /\ max_nodes \in 0..MaxNodesArg
    /\ max_depth \in 0..MaxDepthArg
    /\ parsed = NotParsed
    /\ IdleGuard /\ IdleAnalyze /\ IdleRank

NextParse == ParseExplainJson

SpecParse == InitParse /\ [][NextParse]_vars

---------------------------------------------------------------------------
(* Claims about the node and depth budget *)

OverBudget ==
    \/ TotalPlanObjects(explain_json) > max_nodes
    \/ DeepestPlanObject(explain_json) > max_depth

C4_ReturnedTreeWithinBudget ==
    pc = "done" /\ parsed.exc = "none" =>
      /\ NodeCount(parsed.value) <= max_nodes
      /\ NodeDepth(parsed.value) <= max_depth

\* C10: a one-entry array yields the entry's own root, with the entry's
\* sibling keys as extra.meta; a longer array yields one "Explain" root
\* whose children are the entries' roots in order and whose extra.meta
\* lists the entries' metadata in the same order.
C10_ArrayShape ==
    pc = "done" /\ explain_json.t = "list" /\ parsed.exc = "none" =>
      LET es == explain_json.v
          own(i) == _normalize_plan(es[i].v["Plan"], max_depth, 0, max_nodes).value
          sib(i) == Without(es[i].v, {"Plan"})
          root == parsed.value
      IN  IF Len(es) = 1
          THEN /\ Without(root, {"extra"}) = Without(own(1), {"extra"})
               /\ Without(root.extra, {"meta"}) = Without(own(1).extra, {"meta"})
               /\ DOMAIN sib(1) # {} => /\ "meta" \in DOMAIN root.extra
                                        /\ root.extra["meta"] = JDict(sib(1))
               /\ DOMAIN sib(1) = {} => root = own(1)
          ELSE /\ root.node_type = JStr("Explain")
               /\ Len(root.children) = Len(es)
               /\ \A i \in 1..Len(es) : root.children[i] = own(i)
               /\ DOMAIN root.extra = {"meta"}
               /\ root.extra["meta"] = JList([i \in 1..Len(es) |-> JDict(sib(i))])

\* Two entries with different roots and different metadata, wrapped.
C10_Witness ==
    /\ pc = "done" /\ parsed.exc = "none"
    /\ explain_json.t = "list" /\ Len(explain_json.v) = 2
    /\ parsed.value.children[1] # parsed.value.children[2]
    /\ parsed.value.extra["meta"].v[1] # parsed.value.extra["meta"].v[2]

---------------------------------------------------------------------------
(* Inputs of the field extraction: one object whose "Plan" is a plan       *)
(* object with raw values of every JSON type under the fields the claims   *)
(* are about, or is no object at all.                                      *)

\* A dict of the optional fields: each key of choices maps to a value, or
\* to Absent when the key is left out.
Absent == [t |-> "absent", v |-> 0]

DictOf(choice) == [k \in {k \in DOMAIN choice : choice[k] # Absent} |-> choice[k]]

ChildPlan ==
    JDict(("Node Type" :> JStr("Seq Scan")) @@ ("Actual Rows" :> JInt(2))
            @@ ("Actual Loops" :> JInt(0)))

NodeTypeValues == {Absent, JStr("Seq Scan"), JStr(""), JInt(5)}

ActualRowsValues ==
    {Absent, JNull, JInt(0), JInt(3), JInt(-2), JStr("abc"), JStr("7"),
     JFloat(5, 2), JBool(TRUE), JList(<<>>), JInf, JNaN}

ActualLoopsValues == {Absent, JNull, JInt(0), JInt(-1), JInt(2), JStr("x")}

TotalCostValues == {Absent, JStr("abc"), JInf}

PlansValues ==
    {Absent, JNull, JInt(5), JStr("ab"), JList(<<ChildPlan>>),
     JList(<<JInt(1), ChildPlan>>)}

FieldPlans ==
    {JDict(DictOf(("Node Type" :> nt) @@ ("Actual Rows" :> ar)
                    @@ ("Actual Loops" :> al) @@ ("Plans" :> ps)
                    @@ ("Total Cost" :> tc))) :
        nt \in NodeTypeValues, ar \in ActualRowsValues,
        al \in ActualLoopsValues, ps \in PlansValues, tc \in TotalCostValues}

NonObjectPlans == {JStr("Seq Scan"), JList(<<ChildPlan>>), JNull, JInt(1)}

FieldInputs ==
    {JDict("Plan" :> plan) : plan \in FieldPlans \cup NonObjectPlans}
      \cup {JList(<<JDict("Plan" :> plan)>>) : plan \in NonObjectPlans}

InitFields ==
    /\ pc = "ready"
    /\ explain_json \in FieldInputs
    /\ max_nodes = DefaultMaxNodes
    /\ max_depth = DefaultMaxDepth
    /\ parsed = NotParsed
    /\ IdleGuard /\ IdleAnalyze /\ IdleRank

SpecFields == InitFields /\ [][NextParse]_vars

---------------------------------------------------------------------------
(* Claims about the extracted fields and the failures of the parser *)

\* C5: in every node of every returned tree, actual_total_rows is
\* actual_rows * max(1, actual_loops) when actual_rows is present (an
\* absent actual_loops counts as 1, one below 1 is floored to 1), and is
\* absent when actual_rows is absent.
C5_ActualTotalRows ==
    pc = "done" /\ parsed.exc = "none" =>
      \A i \in 1..Len(Nodes(parsed.value)) :
        LET node == Nodes(parsed.value)[i]
            loops == IF node.actual_loops = JNull THEN 1
                     ELSE IF node.actual_loops.v < 1 THEN 1
                     ELSE node.actual_loops.v
        IN  IF node.actual_rows = JNull
            THEN node.actual_total_rows = JNull
            ELSE node.actual_total_rows = JInt(node.actual_rows.v * loops)

\* A returned node with rows and a loop count below 1.
C5_Witness ==
    /\ pc = "done" /\ parsed.exc = "none"
    /\ parsed.value.actual_rows = JInt(3)
    /\ parsed.value.actual_loops = JInt(-1)
    /\ parsed.value.actual_total_rows = JInt(3)

\* C9 as stated: the call returns a tree, or fails with the malformed-plan
\* error, or fails with the limit error; nothing else escapes.
C9_ThreeOutcomes ==
    pc = "done" =>
      \/ parsed.exc = "none"
      \/ IsMalformedError(parsed)
      \/ IsLimitError(parsed, max_depth)

\* The recognized numeric fields, by the coercion applied to them
IntKeys == {"Plan Rows", "Plan Width", "Actual Rows", "Actual Loops"}
FloatKeys ==
    {"Startup Cost", "Total Cost", "Actual Startup Time", "Actual Total Time",
     "Sort Space Used"}

Coerced(plan, key) ==
    IF key \in IntKeys THEN _get_int(plan, key) ELSE _get_float(plan, key)

\* The raw value under key gives no number
Uncoercible(plan, key) ==
    Coerced(plan, key).exc # "none" \/ Coerced(plan, key).value = JNull

\* C13 as stated: a recognized numeric field whose raw value cannot be
\* coerced never aborts the parse; the call gives what it gives for the
\* same plan without that field.
C13_CoercionNeverAborts ==
    pc = "done" /\ explain_json.t = "dict" /\ explain_json.v["Plan"].t = "dict" =>
      LET plan == explain_json.v["Plan"].v IN
      \A key \in (IntKeys \cup FloatKeys) \cap DOMAIN plan :
        Uncoercible(plan, key) =>
          parsed = parse_explain_json(JDict("Plan" :> JDict(Without(plan, {key}))),
                                      max_nodes, max_depth)

---------------------------------------------------------------------------
(* Inputs with fields outside the recognized set: buffer statistics, a     *)
(* planner flag and a raw field named "meta", on a root with or without a  *)
(* child, in each top-level shape, with or without top-level metadata.     *)

ExtrasChild ==
    JDict(("Node Type" :> JStr("Seq Scan")) @@ ("Shared Hit Blocks" :> JInt(3))
            @@ ("Workers" :> JList(<<>>)) @@ ("Plan Rows" :> JInt(10)))

ExtrasPlans ==
    {JDict(DictOf(("Node Type" :> JStr("Sort")) @@ ("Temp Written Blocks" :> tw)
                    @@ ("I/O Read Time" :> io) @@ ("Parallel Aware" :> pa)
                    @@ ("meta" :> rm) @@ ("Plans" :> ps))) :
        tw \in {Absent, JInt(12)}, io \in {Absent, JFloat(5, 2)},
        pa \in {Absent, JBool(FALSE)},
        rm \in {Absent, JInt(1), JDict("Planning Time" :> JInt(9))},
        ps \in {Absent, JList(<<ExtrasChild>>)}}

ExtrasInputs ==
    {JDict(("Plan" :> plan) @@ meta) : plan \in ExtrasPlans, meta \in Metas}
      \cup {JList(<<JDict(("Plan" :> plan) @@ meta)>>) :
              plan \in ExtrasPlans, meta \in Metas}
      \cup {JList(<<JDict(("Plan" :> plan) @@ meta), JDict("Plan" :> ExtrasChild)>>) :
              plan \in ExtrasPlans, meta \in Metas}

InitExtras ==
    /\ pc = "ready"
    /\ explain_json \in ExtrasInputs
    /\ max_nodes = DefaultMaxNodes
    /\ max_depth = DefaultMaxDepth
    /\ parsed = NotParsed
    /\ IdleGuard /\ IdleAnalyze /\ IdleRank

SpecExtras == InitExtras /\ [][NextParse]_vars

\* The buffers mapping of a node as a dict (None is no mapping)
BuffersOf(node) == IF node.buffers = JNull THEN EmptyDict ELSE node.buffers.v

\* The nodes returned for the plan objects of the input, without the
\* "Explain" wrapper of a longer array
PlanNodes(json, root) ==
    IF json.t = "list" /\ Len(json.v) > 1 THEN NodesOfAll(root.children)
    ELSE Nodes(root)

\* The plan objects of a raw plan, in pre-order
RECURSIVE RawNodes(_)
RECURSIVE RawNodesOfAll(_)
RawNodesOfAll(plans) ==
    IF plans = <<>> THEN <<>> ELSE RawNodes(Head(plans)) \o RawNodesOfAll(Tail(plans))
RawNodes(plan) == <<plan>> \o RawNodesOfAll(RawChildren(plan))

\* The plan objects of the input, in the order of PlanNodes
RawPlanNodes(json) ==
    RawNodesOfAll([i \in 1..Len(Entries(json)) |-> Entries(json)[i].v["Plan"]])

\* C11 as stated: in every returned node, every raw field whose name
\* marks a buffer or I/O statistic is a key of buffers and no key of
\* extra, so that buffers and extra share no key.
C11_BuffersDisjointFromExtra ==
    pc = "done" /\ parsed.exc = "none" =>
      \A i \in 1..Len(PlanNodes(explain_json, parsed.value)) :
        LET node == PlanNodes(explain_json, parsed.value)[i]
            raw == RawPlanNodes(explain_json)[i].v
        IN  /\ \A key \in DOMAIN raw :
                 IsBufferKey(key) =>
                   key \in DOMAIN BuffersOf(node) /\ key \notin DOMAIN node.extra
            /\ DOMAIN BuffersOf(node) \cap DOMAIN node.extra = {}

\* C12 as stated: in every returned node, every raw field outside the
\* recognized set is a key of extra with its raw value, the root with
\* attached metadata included.
C12_ExtraKeepsRawFields ==
    pc = "done" /\ parsed.exc = "none" =>
      \A i \in 1..Len(PlanNodes(explain_json, parsed.value)) :
        LET node == PlanNodes(explain_json, parsed.value)[i]
            raw == RawPlanNodes(explain_json)[i].v
        IN  \A key \in (DOMAIN raw) \ known_keys :
              key \in DOMAIN node.extra /\ node.extra[key] = raw[key]

---------------------------------------------------------------------------
(* The call guard_rewrite(sql).  The text is any token sequence up to      *)
(* MaxSqlTokens; the parser's answer and the keyword iteration order are   *)
(* chosen independently of the text, so every answer the library could     *)
(* give for it is among those explored.                                    *)

MaxSqlTokens == 3

SqlTokens ==
    {" ", NL, SQ, DQ, LineOpen, BlockOpen, BlockClose, "select", "delete", "UPDATE"}

RECURSIVE SqlTexts(_)
SqlTexts(n) ==
    IF n = 0 THEN {<<>>}
    ELSE SqlTexts(n - 1)
           \cup {<<tok>> \o rest : tok \in SqlTokens,
                                   rest \in {t \in SqlTexts(n - 1) : Len(t) = n - 1}}

ReadStatements ==
    {Statement("Select", {"Select", "Column", "Table"}),
     Statement("Union", {"Union", "Select"}),
     Statement("Explain", {"Explain", "Select"})}

WriteInsideStatements ==
    {Statement("Select", {"Select", "With", "CTE", "Delete", "Table"}),
     Statement("Select", {"Select", "Subquery", "Insert"}),
     Statement("Union", {"Union", "Select", "Update"})}

OtherRootStatements ==
    {Statement("Update", {"Update", "Table"}),
     Statement("Command", {"Command"}),
     Statement("None", {})}

ParseOutcomes ==
    {ParseRaised("Invalid expression / Unexpected token"), ParseReturned(<<>>)}
      \cup {ParseReturned(<<st>>) :
              st \in ReadStatements \cup WriteInsideStatements \cup OtherRootStatements}
      \cup {ParseReturned(<<a, b>>) : a \in ReadStatements, b \in ReadStatements}
      \cup {ParseReturned(<<Statement("Select", {"Select", "Literal"}), st>>) :
              st \in {Statement("Delete", {"Delete", "Table"}),
                      Statement("Merge", {"Merge", "Table"})}}

\* Longer texts: a select and a write divided by ';', and texts in which a
\* quote stands inside a quoted identifier or a comment mark inside a
\* literal.
SelectThenDelete ==
    <<"SELECT", " ", "1", ";", " ", "DELETE", " ", "FROM", " ", "users">>
SelectThenMerge == <<"select", " ", "1", ";", " ", "merge", " ", "users">>
QuoteInIdentifier ==
    <<"select", " ", DQ, "x", SQ, "x", DQ, " ", SQ, "delete", SQ>>
LineOpenInLiteral == <<"select", " ", SQ, LineOpen, SQ, NL, SQ, "delete", SQ>>
QuoteInComment ==
    <<"select", " ", "1", BlockOpen, SQ, BlockClose, " ", SQ, "delete", SQ,
      LineOpen, SQ>>

GuardSamples ==
    {SelectThenDelete, SelectThenMerge, QuoteInIdentifier, LineOpenInLiteral,
     QuoteInComment}

GuardRewrite ==
    /\ pc = "ready"
    /\ guard' = guard_rewrite(sql, order, parse)
    /\ pc' = "done"
    /\ UNCHANGED <<sql, order, parse>>
    /\ UNCHANGED <<parser_vars, analyze_vars, rank_vars>>

InitGuard ==
    /\ pc = "ready"
    /\ sql \in SqlTexts(MaxSqlTokens) \cup GuardSamples
    /\ order \in IterationOrders
    /\ parse \in ParseOutcomes
    /\ guard = NotGuarded
    /\ IdleParser /\ IdleAnalyze /\ IdleRank

NextGuard == GuardRewrite

SpecGuard == InitGuard /\ [][NextGuard]_vars

\* The lowered, comment- and literal-stripped text the keyword check reads
LoweredStripped(text) ==
    [i \in 1..Len(_strip_comments_and_literals(text)) |->
        Lower(_strip_comments_and_literals(text)[i])]

\* C1: guard_rewrite answers allowed = true only for a text that is not
\* blank, in whose stripped text no forbidden keyword stands as a word,
\* that parses without error into exactly one statement, whose root is a
\* select / union / intersect / except / explain, and whose syntax tree
\* holds no write or DDL node anywhere.
C1_AllowedOnlyIfAllChecksPass ==
    pc = "done" /\ guard.allowed =>
      /\ ~IsBlank(sql)
      /\ \A keyword \in FORBIDDEN_KEYWORDS : ~WordMatch(keyword, LoweredStripped(sql))
      /\ ~parse.raised
      /\ Len(parse.statements) = 1
      /\ parse.statements[1].root \in allowed_roots
      /\ parse.statements[1].nodes \cap disallowed = {}

\* An allowed text whose only forbidden word sits inside a string literal.
C1_Witness ==
    /\ pc = "done"
    /\ guard.allowed
    /\ sql = <<SQ, "delete", SQ>>
    /\ parse = ParseReturned(<<Statement("Select", {"Select", "Column", "Table"})>>)

---------------------------------------------------------------------------
(* SQL as its lexer reads it: what is left of a text outside its comments  *)
(* and its quoted literals, scanned left to right.                         *)

\* The part of s outside comments and literals when the scan of s starts
\* in the given mode; a comment leaves a blank, a literal its two quotes.
RECURSIVE Lex(_, _)
Lex(s, mode) ==
    IF s = <<>> THEN <<>>
    ELSE LET h == Head(s)
             r == Tail(s)
         IN  CASE mode = "code" ->
                    IF h = LineOpen THEN <<" ">> \o Lex(r, "line")
                    ELSE IF h = BlockOpen THEN <<" ">> \o Lex(r, "block")
                    ELSE IF h = SQ THEN <<SQ>> \o Lex(r, "single")
                    ELSE IF h = DQ THEN <<DQ>> \o Lex(r, "double")
                    ELSE <<h>> \o Lex(r, "code")
               [] mode = "line" ->
                    IF h = NL THEN <<NL>> \o Lex(r, "code") ELSE Lex(r, "line")
               [] mode = "block" ->
                    IF h = BlockClose THEN Lex(r, "code") ELSE Lex(r, "block")
               [] mode = "single" ->
                    IF h = SQ THEN <<SQ>> \o Lex(r, "code") ELSE Lex(r, "single")
               [] OTHER ->
                    IF h = DQ THEN <<DQ>> \o Lex(r, "code") ELSE Lex(r, "double")

\* The mode in which the scan of s ends
RECURSIVE LexEnd(_, _)
LexEnd(s, mode) ==
    IF s = <<>> THEN mode
    ELSE LET h == Head(s) IN
         LexEnd(Tail(s),
                CASE mode = "code" ->
                       (CASE h = LineOpen -> "line" [] h = BlockOpen -> "block"
                          [] h = SQ -> "single" [] h = DQ -> "double"
                          [] OTHER -> "code")
                  [] mode = "line" -> IF h = NL THEN "code" ELSE "line"
                  [] mode = "block" -> IF h = BlockClose THEN "code" ELSE "block"
                  [] mode = "single" -> IF h = SQ THEN "code" ELSE "single"
                  [] OTHER -> IF h = DQ THEN "code" ELSE "double")

\* Every literal and block comment of the text is closed
Terminated(text) == LexEnd(text, "code") \in {"code", "line"}

\* The forbidden keywords that stand as words outside comments and literals
KeywordsInCode(text) ==
    {keyword \in FORBIDDEN_KEYWORDS :
        WordMatch(keyword, [i \in 1..Len(Lex(text, "code")) |-> Lower(Lex(text, "code")[i])])}

\* The forbidden keywords the keyword check can match
KeywordsMatched(text) ==
    {keyword \in FORBIDDEN_KEYWORDS : WordMatch(keyword, LoweredStripped(text))}

KeywordReason(keyword) == JStr("Rewrite contains forbidden keyword: " \o keyword \o ".")
SingleStatementReason == JStr("Rewrite must contain a single statement.")

\* The input has a select, a ';' and a write, and the parser gives the two
\* statements
SelectThenWrite ==
    /\ sql \in {SelectThenDelete, SelectThenMerge}
    /\ ~parse.raised
    /\ Len(parse.statements) = 2
    /\ parse.statements[1].root = "Select"
    /\ parse.statements[2].root \in disallowed \cup {"Merge"}

C15_ChecksInOrder ==
    pc = "done" =>
      /\ IsBlank(sql) => guard.reason = JStr("Rewrite SQL is empty.")
      /\ ~IsBlank(sql) /\ KeywordsMatched(sql) # {} =>
           \E keyword \in KeywordsMatched(sql) : guard.reason = KeywordReason(keyword)
      /\ ~IsBlank(sql) /\ KeywordsMatched(sql) = {} =>
           IF parse.raised
           THEN guard.reason = JStr("Rewrite SQL failed to parse: " \o parse.msg \o ".")
           ELSE IF Len(parse.statements) # 1
           THEN guard.reason = SingleStatementReason
           ELSE IF parse.statements[1].root \notin allowed_roots
           THEN guard.reason = JStr("Rewrite must be a SELECT, WITH, or EXPLAIN statement.")
           ELSE IF parse.statements[1].nodes \cap disallowed # {}
           THEN guard.reason = JStr("Rewrite contains non-read-only operations.")
           ELSE guard.allowed
      /\ IsBlank(sql) \/ KeywordsMatched(sql) # {} =>
           \A parsing \in ParseOutcomes : guard_rewrite(sql, order, parsing) = guard

\* A text with a forbidden keyword on which the parser would raise, and
\* the rejection names the keyword.
C15_Witness ==
    /\ pc = "done"
    /\ sql = <<"select", " ", "delete">>
    /\ parse.raised
    /\ guard = GuardrailResult(FALSE, KeywordReason("delete"))

\* C16: every call returns a GuardrailResult; a rejection carries a
\* non-empty reason and an allowed result carries none.
C16_ResultAlwaysReturned ==
    pc = "done" =>
      /\ DOMAIN guard = {"allowed", "reason"}
      /\ guard.allowed \in BOOLEAN
      /\ guard.allowed => guard.reason = JNull
      /\ ~guard.allowed =>
           guard.reason.t = "str" /\ guard.reason.v \notin {"", "pending"}

\* A text on which the parser raises, rejected with the parser's message
C16_Witness ==
    /\ pc = "done"
    /\ sql = <<"select">>
    /\ parse = ParseRaised("Invalid expression / Unexpected token")
    /\ guard = GuardrailResult(FALSE,
         JStr("Rewrite SQL failed to parse: Invalid expression / Unexpected token."))

\* C17 as stated: a forbidden word that occurs only inside the comments
\* and quoted literals of the text causes no keyword rejection.
C17_LiteralsNeverMatch ==
    pc = "done" /\ Terminated(sql) /\ KeywordsInCode(sql) = {} =>
      \A keyword \in FORBIDDEN_KEYWORDS : guard.reason # KeywordReason(keyword)

\* C18 as stated: the result of guard_rewrite, the keyword named in the
\* reason included, is the same under every iteration order of the
\* keyword set.
C18_SameResultUnderEveryOrder ==
    pc = "done" =>
      \A keywords \in IterationOrders : guard_rewrite(sql, keywords, parse) = guard

---------------------------------------------------------------------------
(* The call rank_findings(findings), on every list of up to MaxFindings    *)
(* findings, next to a call of analyze on a plan whose findings tie.       *)

MaxFindings == 4

SampleFinding(code, title, score) == Finding(code, title, score, "", "", EmptyDict)

SampleFindings ==
    {SampleFinding("SEQ_SCAN_LARGE", "Sequential scan on users", <<3, 4>>),
     SampleFinding("MISSING_INDEX", "Possible missing index on users", <<3, 4>>),
     SampleFinding("SORT_SPILL", "Sort spilled to disk", <<13, 20>>),
     SampleFinding("NESTED_LOOP_HUGE_OUTER", "Nested loop with very large outer side", One)}

RECURSIVE FindingLists(_)
FindingLists(n) ==
    IF n = 0 THEN {<<>>}
    ELSE FindingLists(n - 1)
           \cup {Append(rest, f) : f \in SampleFindings,
                                   rest \in {l \in FindingLists(n - 1) : Len(l) = n - 1}}

\* A sequential scan of the table, as EXPLAIN (FORMAT JSON) reports it
Scan(relation, condition, rows) ==
    JDict(DictOf(("Node Type" :> JStr("Seq Scan")) @@ ("Relation Name" :> JStr(relation))
                   @@ ("Plan Rows" :> JInt(rows)) @@ ("Filter" :> condition)))

NestedLoop(kids) ==
    JDict(("Node Type" :> JStr("Nested Loop")) @@ ("Plan Rows" :> JInt(10))
            @@ ("Plans" :> JList(kids)))

RankPlans ==
    {JDict("Plan" :> Scan("users", JStr("(a = 1)"), 150000)),
     JDict("Plan" :> NestedLoop(<<Scan("users", Absent, 60000),
                                  Scan("orders", JStr("(a = 1)"), 200000)>>)),
     JDict("Plan" :> Scan("users", Absent, 100))}

SampleSql == <<"select", " ", "*", " ", "from", " ", "users">>

RankFindings ==
    /\ ranking = NotRanked
    /\ ranking' = rank_findings(findings)
    /\ UNCHANGED <<pc, findings, parser_vars, guard_vars, analyze_vars>>

Analyze ==
    /\ pc = "ready"
    /\ parsed' = parse_explain_json(explain_json, DefaultMaxNodes, DefaultMaxDepth)
    /\ guard' = IF parsed'.exc = "none"
                THEN GuardCall(llm_enabled, llm_suggestion, order, parse)
                ELSE guard
    /\ output' = analyze(sql, parsed', llm_enabled, llm_suggestion, order, parse)
    /\ pc' = "done"
    /\ UNCHANGED <<explain_json, max_nodes, max_depth, sql, order, parse,
                   llm_enabled, llm_suggestion, reply, rank_vars>>

InitRank ==
    /\ pc = "ready"
    /\ findings \in FindingLists(MaxFindings)
    /\ ranking = NotRanked
    /\ explain_json \in RankPlans
    /\ max_nodes = DefaultMaxNodes
    /\ max_depth = DefaultMaxDepth
    /\ parsed = NotParsed
    /\ sql = SampleSql
    /\ order = SourceOrder
    /\ parse = ParseRaised("")
    /\ guard = NotGuarded
    /\ IdleAnalyze

NextRank == RankFindings \/ Analyze

SpecRank == InitRank /\ [][NextRank]_vars

\* The entries of a list that have the given score, in the list's order
WithScore(list, score) == SelectSeq(list, LAMBDA f : f.score = score)

\* C6: rank_findings returns a permutation of its input in descending
\* order of score in which findings of equal score keep their input order,
\* and primary is the title of the first ranked finding, none for an empty
\* list; in the output of analyze, primary_bottleneck is the title of
\* findings[0], which has the greatest score.
C6_StableDescendingRanking ==
    /\ ranking # NotRanked =>
         /\ Len(ranking.ranked) = Len(findings)
         /\ \A i \in 1..Len(findings) :
              WithScore(ranking.ranked, findings[i].score)
                = WithScore(findings, findings[i].score)
         /\ \A i \in 1..Len(ranking.ranked) : \A j \in 1..Len(ranking.ranked) :
              i < j => FracLeq(ranking.ranked[j].score, ranking.ranked[i].score)
         /\ ranking.primary = IF findings = <<>> THEN JNull
                              ELSE JStr(ranking.ranked[1].title)
    /\ pc = "done" /\ output.exc = "none" =>
         IF output.value.findings = <<>>
         THEN output.value.primary_bottleneck = JNull
         ELSE /\ output.value.primary_bottleneck = JStr(output.value.findings[1].title)
              /\ \A i \in 1..Len(output.value.findings) :
                   FracLeq(output.value.findings[i].score,
                           output.value.findings[1].score)

\* A list with a tie behind a lower score, ranked, and an analysis whose
\* two findings tie.
C6_Witness ==
    /\ Len(findings) = 3
    /\ findings[1].score = <<13, 20>>
    /\ findings[2].code = "MISSING_INDEX"
    /\ findings[3].code = "SEQ_SCAN_LARGE"
    /\ ranking.primary = JStr("Possible missing index on users")
    /\ ranking.ranked = <<findings[2], findings[3], findings[1]>>
    /\ pc = "done" /\ output.exc = "none"
    /\ Len(output.value.findings) = 2
    /\ output.value.findings[1].score = output.value.findings[2].score
    /\ output.value.primary_bottleneck = JStr("Sequential scan on users")

---------------------------------------------------------------------------
(* The call analyze(sql, explain_json) without the LLM, on plans of up to  *)
(* MaxScans sequential scans under a join, and on plans that make each of  *)
(* the other rules fire.                                                   *)

MaxScans == 2
MaxMissing == 6

Conditions ==
    {Absent, JStr("(a = 1)"), JStr("((a = 1) AND (b > 2))"),
     JStr("((b > 2) AND (a = 1))"), JStr("((u.a = 1) AND (a < 5) AND (b IS NULL))"),
     JStr("(TRUE = flag)")}

Scans ==
    {Scan(relation, condition, rows) :
        relation \in {"users", "orders"}, condition \in Conditions,
        rows \in {150000, 100}}

RECURSIVE ScanLists(_)
ScanLists(n) ==
    IF n = 0 THEN {<<>>}
    ELSE ScanLists(n - 1)
           \cup {Append(rest, scan) : scan \in Scans,
                                      rest \in {l \in ScanLists(n - 1) : Len(l) = n - 1}}

OtherPlans ==
    {JDict(("Node Type" :> JStr("Sort")) @@ ("Sort Space Type" :> JStr("Disk"))
             @@ ("Sort Method" :> JStr("external merge  Disk: 1024kB"))
             @@ ("Temp Written Blocks" :> JInt(12))
             @@ ("Plans" :> JList(<<Scan("users", Absent, 100)>>))),
     JDict(("Node Type" :> JStr("Index Scan")) @@ ("Plan Width" :> JInt(300))
             @@ ("Plan Rows" :> JInt(20000))),
     JDict(("Node Type" :> JStr("Index Scan")) @@ ("Plan Rows" :> JInt(10))
             @@ ("Actual Rows" :> JInt(30000)) @@ ("Actual Loops" :> JInt(2))),
     JDict(("Node Type" :> JStr("Seq Scan")) @@ ("Alias" :> JStr("u"))
             @@ ("Plan Rows" :> JInt(150000)) @@ ("Filter" :> JStr("(a = 1)"))),
     JDict(("Node Type" :> JStr("Parallel Seq Scan")) @@ ("Relation Name" :> JStr("users"))
             @@ ("Plan Rows" :> JInt(60000)) @@ ("Index Cond" :> JStr("(a = 1)"))),
     JDict(("Node Type" :> JStr("Nested Loop"))
             @@ ("Plans" :> JList(<<Scan("users", Absent, 100),
                                    JDict(("Node Type" :> JStr("Index Scan"))
                                            @@ ("Actual Rows" :> JInt(0)))>>)))}

AnalyzePlans ==
    {JDict("Plan" :> scan) : scan \in Scans}
      \cup {JDict("Plan" :> NestedLoop(kids)) :
              kids \in {l \in ScanLists(MaxScans) : Len(l) >= 2}}
      \cup {JDict("Plan" :> plan) : plan \in OtherPlans}
      \cup {JList(<<JDict(("Plan" :> plan) @@ ("Planning Time" :> JInt(1)))>>) :
              plan \in OtherPlans}
      \cup {JStr("plan"), JList(<<>>)}

AnalyzeSqls ==
    {SampleSql,
     <<"select", " ", "x", " ", "from", " ", "users", " ", "where", " ", "lower", "(",
       "x", ")", " ", "in", " ", "(", "1", ",", "1", ")", " ", "LIMIT", " ", "1">>,
     <<"EXPLAIN", " ", "select", " ", "x", "::", "x", " ", "from", " ", "users", "\n",
       LineOpen, " ", "limit", " ">>}

InitAnalyze ==
    /\ pc = "ready"
    /\ explain_json \in AnalyzePlans
    /\ max_nodes = DefaultMaxNodes
    /\ max_depth = DefaultMaxDepth
    /\ parsed = NotParsed
    /\ sql \in AnalyzeSqls
    /\ order = SourceOrder
    /\ parse = ParseRaised("")
    /\ guard = NotGuarded
    /\ IdleAnalyze /\ IdleRank

NextAnalyze == Analyze

SpecAnalyze == InitAnalyze /\ [][NextAnalyze]_vars

\* The suggestions of the analysed plan in the order the rules made them
Generated == CollectSuggestions(walk_plan(parsed.value, <<>>))

\* The places of Generated that hold the first suggestion with their key
FirstPlaces ==
    {i \in 1..Len(Generated) :
        \A j \in 1..(i - 1) : SuggestionKey(Generated[j]) # SuggestionKey(Generated[i])}

\* C7: the index suggestions returned hold no two entries with the same
\* (table, ordered columns) key; they are the first suggestion of each key,
\* in generation order; two suggestions on one table whose columns are the
\* same set in another order are both kept.
C7_IndexSuggestionsDeduplicated ==
    pc = "done" /\ output.exc = "none" =>
      LET kept == output.value.suggested_indexes IN
      /\ \A i \in 1..Len(kept) : \A j \in 1..Len(kept) :
           i # j => SuggestionKey(kept[i]) # SuggestionKey(kept[j])
      /\ Len(kept) = Cardinality(FirstPlaces)
      /\ \E place \in [1..Len(kept) -> FirstPlaces] :
           /\ \A a \in 1..Len(kept) : \A b \in 1..Len(kept) :
                a < b => place[a] < place[b]
           /\ \A k \in 1..Len(kept) : kept[k] = Generated[place[k]]
      /\ \A i \in 1..Len(Generated) : \A j \in 1..Len(Generated) :
           /\ Generated[i].table = Generated[j].table
           /\ Generated[i].columns # Generated[j].columns
           => \E a \in 1..Len(kept) : \E b \in 1..Len(kept) :
                /\ a # b
                /\ SuggestionKey(kept[a]) = SuggestionKey(Generated[i])
                /\ SuggestionKey(kept[b]) = SuggestionKey(Generated[j])

\* Two scans of users filtered on (a, b) and on (b, a): four suggestions
\* made, the first of each column order kept.
C7_Witness ==
    /\ pc = "done" /\ output.exc = "none"
    /\ Len(Generated) = 4
    /\ Len(output.value.suggested_indexes) = 2
    /\ output.value.suggested_indexes[1].table = "users"
    /\ output.value.suggested_indexes[2].table = "users"
    /\ output.value.suggested_indexes[1].columns = <<"a", "b">>
    /\ output.value.suggested_indexes[2].columns = <<"b", "a">>
    /\ output.value.suggested_indexes[1].reason
         = "Accelerate the scan with an index covering filter columns."

\* C8: for every plan analyze accepts, confidence.overall lies between 0.3
\* and 0.95 (in hundredths, 30 and 95), it is 0.7 less 0.1 for each entry
\* of missing_data, held in that range, and it never grows with the number
\* of entries.
C8_ConfidenceBoundedAndMonotone ==
    pc = "done" /\ output.exc = "none" =>
      LET confidence == output.value.confidence IN
      /\ confidence.overall \in 30..95
      /\ confidence.overall = Max(30, Min(95, 70 - 10 * Len(confidence.missing_data)))
      /\ Len(confidence.missing_data) > 0 => confidence.overall <= 70
      /\ \A m \in 0..MaxMissing : \A n \in 0..MaxMissing :
           /\ confidence_score(n) \in 30..95
           /\ m <= n => confidence_score(n) <= confidence_score(m)

\* An accepted plan without any actual-rows information.
C8_Witness ==
    /\ pc = "done" /\ output.exc = "none"
    /\ output.value.confidence.missing_data = <<"actual_rows">>
    /\ output.value.confidence.overall = 60

---------------------------------------------------------------------------
(* The call analyze(sql, explain_json, llm_enabled): the answer of the     *)
(* provider is any of the kinds generate_llm_suggestions tells apart, the  *)
(* candidate rewrite any text of up to MaxRewriteTokens tokens.            *)

MaxRewriteTokens == 3

RewriteTokens == {" ", "select", "delete"}

RECURSIVE RewriteTexts(_)
RewriteTexts(n) ==
    IF n = 0 THEN {<<>>}
    ELSE RewriteTexts(n - 1)
           \cup {<<tok>> \o rest : tok \in RewriteTokens,
                                   rest \in {t \in RewriteTexts(n - 1) : Len(t) = n - 1}}

Payloads ==
    {DictOf(("summary" :> summary) @@ ("notes" :> notes)
              @@ ("rewrite_sql" :> rewrite_sql) @@ ("confidence" :> confidence)) :
        summary \in {Absent, JList(<<JStr("The scan reads the whole table")>>)},
        notes \in {Absent, JList(<<JStr("Use the index")>>),
                   JList(<<JStr(" "), JInt(3), JStr("Use the index"), JStr("Check stats")>>)},
        rewrite_sql \in {Absent, JNull, JInt(5)}
                          \cup {JText(t) : t \in RewriteTexts(MaxRewriteTokens)},
        confidence \in {Absent, JFloat(9, 10), JFloat(3, 2)}}

LlmResponses ==
    {[kind |-> k, payload |-> EmptyDict] :
        k \in {"no provider", "provider error", "no json", "bad json", "not object"}}
      \cup {[kind |-> "payload", payload |-> payload] : payload \in Payloads}

LlmParseOutcomes ==
    {ParseRaised("Invalid expression / Unexpected token"),
     ParseReturned(<<Statement("Select", {"Select", "Column", "Table"})>>),
     ParseReturned(<<Statement("Select", {"Select", "With", "CTE", "Delete", "Table"})>>),
     ParseReturned(<<Statement("Update", {"Update", "Table"})>>),
     ParseReturned(<<Statement("Select", {"Select", "Column", "Table"}),
                     Statement("Select", {"Select", "Column", "Table"})>>)}

InitLlm ==
    /\ pc = "ready"
    /\ explain_json \in {JDict("Plan" :> Scan("users", JStr("(a = 1)"), 150000)),
                         JStr("plan")}
    /\ max_nodes = DefaultMaxNodes
    /\ max_depth = DefaultMaxDepth
    /\ parsed = NotParsed
    /\ sql = SampleSql
    /\ order \in IterationOrders
    /\ parse \in LlmParseOutcomes
    /\ guard = NotGuarded
    /\ llm_enabled \in BOOLEAN
    /\ llm_suggestion \in {generate_llm_suggestions(response) : response \in LlmResponses}
    /\ output = NoOutput
    /\ reply = NoReply
    /\ IdleRank

SpecLlm == InitLlm /\ [][NextAnalyze]_vars

\* C2: with the LLM enabled, the output carries a suggested rewrite only
\* when guard_rewrite was called on the candidate and allowed it, and the
\* rewrite is exactly that candidate; when guard_rewrite rejects the
\* candidate the output carries no rewrite, and its explanation is the
\* reason guard_rewrite gave, a non-empty string.
C2_RewriteNeverUnguarded ==
    pc = "done" /\ output.exc = "none" =>
      LET candidate == llm_suggestion.rewrite_sql
          out == output.value
      IN  /\ out.suggested_rewrite # None =>
                /\ llm_enabled
                /\ Truthy(candidate)
                /\ guard = guard_rewrite(candidate.v, order, parse)
                /\ guard.allowed
                /\ out.suggested_rewrite[1].sql = candidate
          /\ llm_enabled /\ Truthy(candidate)
               /\ ~guard_rewrite(candidate.v, order, parse).allowed =>
                /\ out.suggested_rewrite = None
                /\ out.suggested_rewrite_explanation.t = "str"
                /\ out.suggested_rewrite_explanation.v # ""
                /\ out.suggested_rewrite_explanation
                     = guard_rewrite(candidate.v, order, parse).reason

\* A candidate with a write keyword: rejected, and the output says why.
C2_Witness ==
    /\ pc = "done" /\ output.exc = "none"
    /\ llm_enabled
    /\ llm_suggestion.rewrite_sql = JText(<<"delete", " ", "select">>)
    /\ output.value.suggested_rewrite = None
    /\ output.value.suggested_rewrite_explanation
         = JStr("Rewrite contains forbidden keyword: delete.")

---------------------------------------------------------------------------
(* The call analyze(sql, explain_json) on scans whose row counts, planned  *)
(* and actual, lie on both sides of the sequential-scan threshold, alone   *)
(* and as the two sides of a join.                                         *)

ScanNodes ==
    {JDict(DictOf(("Node Type" :> JStr(node_type)) @@ ("Relation Name" :> JStr("users"))
                    @@ ("Plan Rows" :> plan_rows) @@ ("Actual Rows" :> actual_rows)
                    @@ ("Actual Loops" :> actual_loops))) :
        node_type \in {"Seq Scan", "Parallel Seq Scan", "SEQ SCAN", "Index Scan"},
        plan_rows \in {Absent, JInt(SEQ_SCAN_ROW_THRESHOLD - 1),
                       JInt(SEQ_SCAN_ROW_THRESHOLD), JInt(5 * SEQ_SCAN_ROW_THRESHOLD)},
        actual_rows \in {Absent, JInt(0), JInt(SEQ_SCAN_ROW_THRESHOLD \div 2),
                         JInt(SEQ_SCAN_ROW_THRESHOLD)},
        actual_loops \in {Absent, JInt(2)}}

ScanPlans ==
    {JDict("Plan" :> node) : node \in ScanNodes}
      \cup {JDict("Plan" :> NestedLoop(<<node, Scan("orders", Absent, rows)>>)) :
              node \in ScanNodes, rows \in {100, 4 * SEQ_SCAN_ROW_THRESHOLD}}

InitScans ==
    /\ pc = "ready"
    /\ explain_json \in ScanPlans
    /\ max_nodes = DefaultMaxNodes
    /\ max_depth = DefaultMaxDepth
    /\ parsed = NotParsed
    /\ sql = SampleSql
    /\ order = SourceOrder
    /\ parse = ParseRaised("")
    /\ guard = NotGuarded
    /\ IdleAnalyze /\ IdleRank

SpecScans == InitScans /\ [][NextAnalyze]_vars

\* Effective rows as stated: actual_total_rows whenever it is present,
\* plan_rows only when it is absent, no rows when both are.
StatedRows(node) ==
    IF node.actual_total_rows # JNull THEN node.actual_total_rows.v
    ELSE IF node.plan_rows # JNull THEN node.plan_rows.v
    ELSE 0

StatedSeqScanLarge(node) ==
    /\ Contains("seq scan", LowerStr(node.node_type.v))
    /\ StatedRows(node) >= 50000

WithCode(list, code) == SelectSeq(list, LAMBDA f : f.code = code)

\* C20 as stated: SEQ_SCAN_LARGE is found for exactly the nodes whose
\* type contains "seq scan" and whose effective rows, actual_total_rows
\* when present (0 included) and plan_rows otherwise, are at least 50,000;
\* the score of the finding is min(1, rows / 200,000).
C20_SeqScanOnEffectiveRows ==
    pc = "done" /\ output.exc = "none" =>
      LET found == WithCode(output.value.findings, "SEQ_SCAN_LARGE")
          large == SelectSeq(Nodes(parsed.value), StatedSeqScanLarge)
      IN  /\ Len(found) = Len(large)
          /\ \A i \in 1..Len(large) : \E j \in 1..Len(found) :
               /\ found[j].evidence.rows = StatedRows(large[i])
               /\ found[j].score = FracMin(One, Frac(StatedRows(large[i]), 200000))

---------------------------------------------------------------------------
(* main.py: the /analyze endpoint of the analyzer service *)

MAX_SQL_LENGTH == 20000
MAX_EXPLAIN_JSON_BYTES == 1048576

\* _make_error: the JSON error reply
_make_error(code, message, http_status) ==
    [status_code |-> http_status, code |-> code, message |-> message]

\* The reply that carries the analysis
Completed == [status_code |-> 200, code |-> "completed", message |-> ""]

\* len(sql), in characters
RECURSIVE SqlLength(_)
SqlLength(text) == IF text = <<>> THEN 0 ELSE Len(Head(text)) + SqlLength(Tail(text))

\* The index at which the scan of lines 49-55 stops: that of the ")" which
\* closes the first "(", or the last index when there is none.
RECURSIVE OptionsEnd(_, _, _)
OptionsEnd(s, i, depth) ==
    IF i > Len(s) THEN Len(s)
    ELSE IF s[i] = "(" THEN OptionsEnd(s, i + 1, depth + 1)
    ELSE IF s[i] = ")"
    THEN IF depth - 1 = 0 THEN i ELSE OptionsEnd(s, i + 1, depth - 1)
    ELSE OptionsEnd(s, i + 1, depth)

StartsWith(s, word) == s # <<>> /\ Head(s) = word

_is_read_only_sql(text) ==
    LET normalized ==
            LowerAll(StripText(StripBlockComments(StripLineComments(StripText(text)))))
        after_explain == StripText(Tail(normalized))
        after_options ==
            IF StartsWith(after_explain, "(")
            THEN StripText(SubSeq(after_explain, OptionsEnd(after_explain, 1, 0) + 1,
                                  Len(after_explain)))
            ELSE after_explain
    IN  IF \E i \in 1..(Len(normalized) - 1) : normalized[i] = ";" THEN FALSE
        ELSE IF StartsWith(normalized, "select") THEN TRUE
        ELSE IF StartsWith(normalized, "explain") THEN StartsWith(after_options, "select")
        ELSE FALSE

\* _estimate_json_bytes without the early exit, which is taken only above
\* the cap and so above MAX_EXPLAIN_JSON_BYTES.
RECURSIVE _estimate_json_bytes(_)
RECURSIVE DictBytes(_, _)
DictBytes(d, keys) ==
    IF keys = {} THEN 0
    ELSE LET k == CHOOSE x \in keys : TRUE
         IN  Len(k) + _estimate_json_bytes(d[k]) + DictBytes(d, keys \ {k})
_estimate_json_bytes(obj) ==
    CASE obj.t = "str" -> Len(obj.v)
      [] obj.t = "dict" -> 2 + DictBytes(obj.v, DOMAIN obj.v)
      [] obj.t = "list" ->
           Len(obj.v) + SumSeq([i \in 1..Len(obj.v) |-> _estimate_json_bytes(obj.v[i])])
      [] OTHER -> 8

\* str.lower() on one character, for the letters of "limit"
LowerChar(c) ==
    CASE c = "L" -> "l" [] c = "I" -> "i" [] c = "M" -> "m" [] c = "T" -> "t"
      [] OTHER -> c

\* needle in msg.lower(), for a needle in lower case
InLowered(needle, msg) ==
    \E i \in 1..(Len(msg) - Len(needle) + 1) :
      \A j \in 1..Len(needle) :
        LowerChar(SubSeq(msg, i + j - 1, i + j - 1)) = SubSeq(needle, j, j)

\* MentionsLimit looking for "limit of".
MentionsLimit_LimitOf(msg) == InLowered("limit of", msg)

\* "limit" in msg.lower()
MentionsLimit(msg) == InLowered("limit", msg)

\* ValueError and its subclasses among the exceptions of the model
IsValueError(exc) == exc \in {"ValueError", "ValidationError"}

\* Lines 134-155 and 157-170: the reply for the outcome of the analyze call
Respond(outcome) ==
    IF outcome.exc = "none" THEN Completed
    ELSE IF IsValueError(outcome.exc)
    THEN _make_error(IF MentionsLimit(outcome.msg) THEN "PLAN_LIMIT_EXCEEDED"
                     ELSE "INVALID_EXPLAIN_JSON",
                     outcome.msg, 400)
    ELSE IF outcome.exc = "TimeoutError"
    THEN _make_error("ANALYZER_TIMEOUT", "Analysis timed out", 504)
    ELSE _make_error("ANALYZER_ERROR", "Unexpected analyzer error", 500)

\* Lines 99-127: the reply of the first check that fails, NoReply when
\* the request passes them all (the messages without their backquotes).
Refusal(text, json) ==
    IF IsBlank(text) THEN _make_error("INVALID_INPUT", "sql is required", 400)
    ELSE IF SqlLength(text) > MAX_SQL_LENGTH
    THEN _make_error("PLAN_LIMIT_EXCEEDED", "SQL length exceeds limit (20000 bytes)", 400)
    ELSE IF ~_is_read_only_sql(text)
    THEN _make_error("SQL_NOT_READ_ONLY", "Only SELECT or EXPLAIN SELECT are permitted", 400)
    ELSE IF json = JNull
    THEN _make_error("INVALID_EXPLAIN_JSON",
                     "explain_json must be provided as object or array", 400)
    ELSE IF _estimate_json_bytes(json) > MAX_EXPLAIN_JSON_BYTES
    THEN _make_error("PLAN_LIMIT_EXCEEDED",
                     "explain_json exceeds max size of 1048576 bytes", 400)
    ELSE NoReply

\* analyze_endpoint, for a call of analyze that returns within the
\* timeout.  max_nodes and max_depth stand for the budget defaults of the
\* parser, brought down to where the plans of the model can exceed them.
AnalyzeEndpoint ==
    /\ pc = "ready"
    /\ IF Refusal(sql, explain_json) # NoReply
       THEN /\ reply' = Refusal(sql, explain_json)
            /\ UNCHANGED <<parsed, guard, output>>
       ELSE /\ parsed' = parse_explain_json(explain_json, max_nodes, max_depth)
            /\ guard' = IF parsed'.exc = "none"
                        THEN GuardCall(llm_enabled, llm_suggestion, order, parse)
                        ELSE guard
            /\ output' = analyze(sql, parsed', llm_enabled, llm_suggestion, order, parse)
            /\ reply' = Respond(output')
    /\ pc' = "done"
    /\ UNCHANGED <<explain_json, max_nodes, max_depth, sql, order, parse,
                   llm_enabled, llm_suggestion, rank_vars>>

EndpointSqls ==
    {SampleSql, <<" ">>, <<"delete", " ", "from", " ", "users">>,
     <<"EXPLAIN", " ", "(", "x", " ", "(", "x", ")", ")", " ", "select", " ", "1", ";">>,
     SelectThenDelete}

InitEndpoint ==
    /\ pc = "ready"
    /\ explain_json \in BudgetInputs
    /\ max_nodes \in 0..MaxNodesArg
    /\ max_depth \in 0..MaxDepthArg
    /\ parsed = NotParsed
    /\ sql \in EndpointSqls
    /\ order = SourceOrder
    /\ parse = ParseRaised("")
    /\ guard = NotGuarded
    /\ IdleAnalyze /\ IdleRank

NextEndpoint == AnalyzeEndpoint

SpecEndpoint == InitEndpoint /\ [][NextEndpoint]_vars

---------------------------------------------------------------------------
(* The call analyze(sql, explain_json) on plans that take each rule of     *)
(* evaluate_plan to both sides of its conditions: estimates beside actual  *)
(* counts, sorts with and without the marks of a spill, scans with the     *)
(* condition strings the column pattern reads, rows of every width.        *)

\* A plan object with the given fields, those marked Absent left out
PlanNode(choice) == JDict(DictOf(choice))

MisestimateNodes ==
    {PlanNode(("Node Type" :> JStr("Index Scan")) @@ ("Plan Rows" :> plan_rows)
                @@ ("Actual Rows" :> actual_rows) @@ ("Actual Loops" :> actual_loops)) :
        plan_rows \in {Absent, JInt(0), JInt(1), JInt(3), JInt(30), JInt(100), JInt(300)},
        actual_rows \in {Absent, JInt(0), JInt(1), JInt(10), JInt(29), JInt(30), JInt(31),
                         JInt(3000)},
        actual_loops \in {Absent, JInt(2)}}

SortNodes ==
    {PlanNode(("Node Type" :> JStr(node_type)) @@ ("Sort Space Type" :> space)
                @@ ("Sort Method" :> method) @@ ("Temp Read Blocks" :> reads)
                @@ ("Temp Written Blocks" :> written)) :
        node_type \in {"Sort", "Incremental Sort", "Index Scan"},
        space \in {Absent, JStr("Disk"), JStr("Memory"), JStr("external")},
        method \in {Absent, JStr("quicksort"), JStr("external merge  Disk: 1024kB")},
        reads \in {Absent, JInt(0), JInt(12), JInt(-1)},
        written \in {Absent, JInt(0), JInt(5)}}

FilterValues ==
    {Absent, JStr(""), JStr("(a = 1)"), JStr("((u.a = 1) AND (a < 5) AND (b IS NULL))"),
     JStr("(TRUE = flag)"), JStr("(lower(name))"), JStr("(t.INDEX_ID = 5)")}

FilterNodes ==
    {PlanNode(("Node Type" :> JStr(node_type)) @@ ("Relation Name" :> relation)
                @@ ("Alias" :> alias) @@ ("Plan Rows" :> JInt(rows))
                @@ ("Filter" :> condition) @@ ("Index Cond" :> index_cond)) :
        node_type \in {"Seq Scan", "Index Scan"},
        relation \in {Absent, JStr("users")},
        alias \in {Absent, JStr("u")},
        rows \in {100, 3 * SEQ_SCAN_ROW_THRESHOLD},
        condition \in FilterValues,
        index_cond \in {Absent, JStr("(b >= 2)")}}

WideNodes ==
    {PlanNode(("Node Type" :> JStr(node_type)) @@ ("Relation Name" :> JStr("users"))
                @@ ("Plan Width" :> width) @@ ("Plan Rows" :> JInt(rows))) :
        node_type \in {"Seq Scan", "Index Scan"},
        width \in {Absent, JInt(WIDE_ROW_WIDTH - 1), JInt(WIDE_ROW_WIDTH),
                   JInt(2 * WIDE_ROW_WIDTH)},
        rows \in {SEQ_SCAN_ROW_THRESHOLD \div 5 - 1, SEQ_SCAN_ROW_THRESHOLD \div 5,
                  SEQ_SCAN_ROW_THRESHOLD, (16 * SEQ_SCAN_ROW_THRESHOLD) \div 5,
                  4 * SEQ_SCAN_ROW_THRESHOLD}}

\* The outer sides of the joins of the model
OuterNodes ==
    {Scan("users", condition, rows) :
        condition \in {Absent, JStr("(a = 1)")},
        rows \in {NESTED_LOOP_OUTER_THRESHOLD - 1, NESTED_LOOP_OUTER_THRESHOLD,
                  2 * NESTED_LOOP_OUTER_THRESHOLD, 3 * NESTED_LOOP_OUTER_THRESHOLD}}

InnerNodes ==
    {Scan("orders", JStr("(a = 1)"), 3 * SEQ_SCAN_ROW_THRESHOLD),
     PlanNode(("Node Type" :> JStr("Index Scan")) @@ ("Plan Rows" :> JInt(1))
                @@ ("Actual Rows" :> JInt(40)))}

RuleNodes == MisestimateNodes \cup SortNodes \cup FilterNodes \cup WideNodes

RulePlans ==
    {JDict("Plan" :> node) : node \in RuleNodes}
      \cup {JDict("Plan" :> NestedLoop(<<outer, inner>>)) :
              outer \in OuterNodes, inner \in InnerNodes}

InitRules ==
    /\ pc = "ready"
    /\ explain_json \in RulePlans
    /\ max_nodes = DefaultMaxNodes
    /\ max_depth = DefaultMaxDepth
    /\ parsed = NotParsed
    /\ sql = SampleSql
    /\ order = SourceOrder
    /\ parse = ParseRaised("")
    /\ guard = NotGuarded
    /\ IdleAnalyze /\ IdleRank

SpecRules == InitRules /\ [][NextAnalyze]_vars

\* The severity that goes with a score: high from 0.8 on, medium from 0.5
\* on, low below
SeverityOf(score) ==
    IF score[1] * 5 >= 4 * score[2] THEN "high"
    ELSE IF score[1] * 2 >= score[2] THEN "medium"
    ELSE "low"

\* C21: every finding of the output has a score between 0 and 1 and the
\* severity that goes with its score (high from 0.8 on, medium from 0.5 on,
\* low below); SORT_SPILL and MISSING_INDEX findings are medium and
\* WIDE_ROW_FETCH findings are low.
C21_SeverityIsImageOfScore ==
    pc = "done" /\ output.exc = "none" =>
      \A i \in 1..Len(output.value.findings) :
        LET finding == output.value.findings[i] IN
        /\ finding.score[2] > 0
        /\ 0 <= finding.score[1] /\ finding.score[1] <= finding.score[2]
        /\ finding.severity = SeverityOf(finding.score)
        /\ finding.code \in {"SORT_SPILL", "MISSING_INDEX"} => finding.severity = "medium"
        /\ finding.code = "WIDE_ROW_FETCH" => finding.severity = "low"

\* A scan of 160,000 rows, 200 bytes wide: SEQ_SCAN_LARGE at the score 0.8
\* where high begins, beside a low WIDE_ROW_FETCH.
C21_Witness ==
    /\ pc = "done" /\ output.exc = "none"
    /\ Len(output.value.findings) = 2
    /\ output.value.findings[1].code = "SEQ_SCAN_LARGE"
    /\ output.value.findings[1].score = <<4, 5>>
    /\ output.value.findings[1].severity = "high"
    /\ output.value.findings[2].code = "WIDE_ROW_FETCH"
    /\ output.value.findings[2].severity = "low"

\* plan_rows and actual_total_rows of a node that has both, each floored at 1
FlooredPlan(node) == IF node.plan_rows.v < 1 THEN 1 ELSE node.plan_rows.v
FlooredActual(node) == IF node.actual_total_rows.v < 1 THEN 1 ELSE node.actual_total_rows.v

\* The condition of ROW_MISESTIMATE as stated
StatedMisestimate(node) ==
    /\ node.plan_rows # JNull
    /\ node.actual_total_rows # JNull
    /\ \/ FlooredActual(node) >= 10 * FlooredPlan(node)
       \/ FlooredPlan(node) >= 10 * FlooredActual(node)

\* max(actual / plan, plan / actual) / 30, held to 1
StatedMisestimateScore(node) ==
    LET over == IF FlooredActual(node) >= FlooredPlan(node)
                THEN Frac(FlooredActual(node), 30 * FlooredPlan(node))
                ELSE Frac(FlooredPlan(node), 30 * FlooredActual(node))
    IN  IF over[1] >= over[2] THEN One ELSE over

TempBlocks(node, key) ==
    IF node.buffers # JNull /\ key \in DOMAIN node.buffers.v /\ node.buffers.v[key].t = "int"
    THEN node.buffers.v[key].v
    ELSE 0

\* The condition of SORT_SPILL as stated
StatedSortSpill(node) ==
    /\ Contains("sort", LowerStr(node.node_type.v))
    /\ \/ /\ node.sort_space_type # JNull
          /\ LowerStr(node.sort_space_type.v) \in {"disk", "external"}
       \/ /\ node.sort_method # JNull
          /\ Contains("disk", LowerStr(node.sort_method.v))
       \/ TempBlocks(node, "Temp Read Blocks") > 0
       \/ TempBlocks(node, "Temp Written Blocks") > 0

\* C23 as stated: SORT_SPILL is found for exactly the nodes whose type
\* contains "sort" and for which sort_space_type is disk or external, or
\* sort_method mentions "disk", or a temp read or written block count
\* collected for the node is greater than 0; never for a node whose type
\* does not contain "sort"; and its score is 0.65.
C23_SortSpillOnDiskUse ==
    pc = "done" /\ output.exc = "none" =>
      LET found == WithCode(output.value.findings, "SORT_SPILL")
          spilled == SelectSeq(Nodes(parsed.value), StatedSortSpill)
      IN  /\ Len(found) = Len(spilled)
          /\ \A j \in 1..Len(found) : found[j].score = <<13, 20>>

\* The tree with the filter of its k-th node, counted in the order of
\* walk_plan, set to the given value
RECURSIVE WithFilter(_, _, _)
RECURSIVE WithFilterAmong(_, _, _)
WithFilterAmong(children, k, condition) ==
    IF children = <<>> THEN <<>>
    ELSE IF k <= NodeCount(Head(children))
    THEN <<WithFilter(Head(children), k, condition)>> \o Tail(children)
    ELSE <<Head(children)>>
           \o WithFilterAmong(Tail(children), k - NodeCount(Head(children)), condition)

WithFilter(node, k, condition) ==
    IF k = 1 THEN [node EXCEPT !.filter = condition]
    ELSE [node EXCEPT !.children = WithFilterAmong(node.children, k - 1, condition)]

WithoutCode(list, code) == SelectSeq(list, LAMBDA f : f.code # code)

\* The findings analyze reports for a tree, MISSING_INDEX left aside
FindingsBesideMissingIndex(root) ==
    WithoutCode(rank_findings(evaluate_plan(root).findings).ranked, "MISSING_INDEX")

\* Filters that yield no column, one column, and several
FilterVariants == {JNull, JStr("(lower(name))"), JStr("(a = 1)"), JStr("(t.INDEX_ID = 5)")}

\* The nodes of the tree that can get a suggestion: a table, and a filter
\* or index condition that yields columns
WithColumns(node) ==
    /\ Truthy(node.relation_name)
    /\ \/ _extract_condition_columns(node.filter) # <<>>
       \/ _extract_condition_columns(node.index_cond) # <<>>

\* C24: whatever the filter of a node yields, no column or some, the
\* findings of every rule other than MISSING_INDEX are the same, for that
\* node and for every other node of the tree; and a node whose condition
\* strings yield no column gets no index suggestion.
C24_RulesIndependentOfColumns ==
    pc = "done" /\ output.exc = "none" =>
      /\ \A k \in 1..NodeCount(parsed.value) : \A condition \in FilterVariants :
           FindingsBesideMissingIndex(WithFilter(parsed.value, k, condition))
             = WithoutCode(output.value.findings, "MISSING_INDEX")
      /\ Len(output.value.suggested_indexes)
           <= Len(SelectSeq(Nodes(parsed.value), WithColumns))

\* A large scan of users whose filter calls a function and yields no
\* column: SEQ_SCAN_LARGE is reported all the same, without MISSING_INDEX
\* and without a suggestion.
C24_Witness ==
    /\ pc = "done" /\ output.exc = "none"
    /\ parsed.value.filter = JStr("(lower(name))")
    /\ parsed.value.index_cond = JNull
    /\ parsed.value.relation_name = JStr("users")
    /\ Len(output.value.findings) = 1
    /\ output.value.findings[1].code = "SEQ_SCAN_LARGE"
    /\ output.value.suggested_indexes = <<>>
    /\ Len(FindingsBesideMissingIndex(WithFilter(parsed.value, 1, JStr("(a = 1)")))) = 1
    /\ Len(evaluate_plan(WithFilter(parsed.value, 1, JStr("(a = 1)"))).findings) = 2

\* The columns of a condition string as stated: the names that stand before
\* a comparison operator, a name being a whole run of letters, digits, _
\* and dots, and LIKE, ILIKE, IN, ANY and IS being operators as whole words.
RECURSIVE TokenEnd(_, _)
TokenEnd(s, j) ==
    IF j < Len(s) /\ (IsWordChar(CharAt(s, j + 1)) \/ CharAt(s, j + 1) = ".")
    THEN TokenEnd(s, j + 1)
    ELSE j

WholeWordAt(s, k, w) == HoldsAt(s, k, w) /\ BoundaryAt(s, k) /\ BoundaryAt(s, k + Len(w))

StatedOperatorEnd(s, k) ==
    CASE \E w \in {">=", "<=", "<>", "!="} : HoldsAt(s, k, w) -> k + 2
      [] \E w \in {"=", ">", "<"} : HoldsAt(s, k, w) -> k + 1
      [] WholeWordAt(s, k, "LIKE") -> k + 4
      [] WholeWordAt(s, k, "ILIKE") -> k + 5
      [] WholeWordAt(s, k, "IN") -> k + 2
      [] WholeWordAt(s, k, "ANY") -> k + 3
      [] WholeWordAt(s, k, "IS") -> k + 2
      [] OTHER -> 0

RECURSIVE StatedMatch(_, _)
StatedMatch(s, i) ==
    IF i > Len(s) THEN <<>>
    ELSE IF ~(IsNameStart(CharAt(s, i)) /\ BoundaryAt(s, i)) THEN StatedMatch(s, i + 1)
    ELSE LET last == TokenEnd(s, i)
             name == LastPart(SubSeq(s, i, last))
             after == StatedOperatorEnd(s, SkipBlankChars(s, last + 1))
         IN  IF after = 0 THEN StatedMatch(s, last + 1)
             ELSE (IF IsLiteralWord(name) THEN <<>> ELSE <<name>>) \o StatedMatch(s, after)

StatedColumns(condition) ==
    IF condition = JNull \/ condition.v = "" THEN <<>> ELSE StatedMatch(condition.v, 1)

\* The columns stated for a node: those of its filter, else of its index
\* condition
StatedNodeColumns(node) ==
    IF StatedColumns(node.filter) # <<>> THEN StatedColumns(node.filter)
    ELSE StatedColumns(node.index_cond)

\* Whether SEQ_SCAN_LARGE, and with it MISSING_INDEX when it fires, is
\* reported on the node
ReportedScan(node) ==
    /\ Contains("seq scan", LowerStr(node.node_type.v))
    /\ EffectiveRows(node) >= SEQ_SCAN_ROW_THRESHOLD

\* C25 as stated: for every node on which SEQ_SCAN_LARGE or MISSING_INDEX
\* fires and that has a table and at least one column before a comparison
\* operator in its condition, the output holds a suggestion for that table
\* whose columns are those columns in first-seen order, each once, without
\* table prefix and without TRUE, FALSE and NULL; and every suggestion of
\* the output has columns and names the table of a node a finding was
\* reported on.
C25_SuggestionNamesExtractedColumns ==
    pc = "done" /\ output.exc = "none" =>
      LET nodes == Nodes(parsed.value)
          kept == output.value.suggested_indexes
      IN  /\ \A i \in 1..Len(nodes) :
               /\ ReportedScan(nodes[i])
               /\ Truthy(nodes[i].relation_name)
               /\ StatedNodeColumns(nodes[i]) # <<>>
               => \E j \in 1..Len(kept) :
                    /\ kept[j].table = nodes[i].relation_name.v
                    /\ kept[j].columns = FromKeys(StatedNodeColumns(nodes[i]), <<>>)
          /\ \A j \in 1..Len(kept) :
               /\ kept[j].columns # <<>>
               /\ \E i \in 1..Len(nodes) :
                    ReportedScan(nodes[i]) /\ TableOf(nodes[i]) = kept[j].table

SeqScanReason == "Accelerate the scan with an index covering filter columns."

\* C30: every MISSING_INDEX finding comes with a SEQ_SCAN_LARGE finding on
\* the same node (same path, same table); on every node the suggestions of
\* the two rules have the same (table, columns) key; so the output holds at
\* most one suggestion for each sequential scan, and it is the one
\* SEQ_SCAN_LARGE made.
C30_MissingIndexImpliesSeqScan ==
    pc = "done" /\ output.exc = "none" =>
      LET missing == WithCode(output.value.findings, "MISSING_INDEX")
          large == WithCode(output.value.findings, "SEQ_SCAN_LARGE")
          walk == walk_plan(parsed.value, <<>>)
          scans == SelectSeq(Nodes(parsed.value),
                             LAMBDA n : Contains("seq scan", LowerStr(n.node_type.v)))
      IN  /\ Len(missing) <= Len(large)
          /\ \A i \in 1..Len(missing) : \E j \in 1..Len(large) :
               /\ large[j].evidence.path = missing[i].evidence.path
               /\ SubSeq(large[j].title, Len("Sequential scan on ") + 1, Len(large[j].title))
                    = SubSeq(missing[i].title, Len("Possible missing index on ") + 1,
                             Len(missing[i].title))
          /\ \A i \in 1..Len(walk) :
               LET made == NodeSuggestions(walk[i].node, walk[i].path) IN
               /\ Len(made) <= 2
               /\ Len(made) >= 1 => made[1].reason = SeqScanReason
               /\ Len(made) = 2 => SuggestionKey(made[1]) = SuggestionKey(made[2])
          /\ Len(output.value.suggested_indexes) <= Len(scans)
          /\ \A j \in 1..Len(output.value.suggested_indexes) :
               output.value.suggested_indexes[j].reason = SeqScanReason

\* A large scan of users filtered on a (twice) and b: both rules fire, both
\* make a suggestion on (a, b), and the one of SEQ_SCAN_LARGE is kept.
C30_Witness ==
    /\ pc = "done" /\ output.exc = "none"
    /\ parsed.value.filter = JStr("((u.a = 1) AND (a < 5) AND (b IS NULL))")
    /\ Len(NodeSuggestions(parsed.value, <<"Seq Scan">>)) = 2
    /\ Len(WithCode(output.value.findings, "MISSING_INDEX")) = 1
    /\ Len(WithCode(output.value.findings, "SEQ_SCAN_LARGE")) = 1
    /\ Len(output.value.suggested_indexes) = 1
    /\ output.value.suggested_indexes[1].columns = <<"a", "b">>
    /\ output.value.suggested_indexes[1].reason = SeqScanReason

---------------------------------------------------------------------------
(* detect_anti_patterns over SQL texts with and without each pattern *)

MaxItems == 22

\* n items of an IN list, separated by commas
RECURSIVE ListItems(_)
ListItems(n) == IF n <= 1 THEN <<"1">> ELSE ListItems(n - 1) \o <<",", "1">>

InList(word, gap, n) == <<word>> \o gap \o <<"(">> \o ListItems(n) \o <<")">>

ListSizes == {1} \cup ((LargeInItems - 1)..MaxItems)

PatternHeads ==
    {<<>>,
     <<"EXPLAIN", " ">>,
     <<NL, " ", "explain", " ">>,
     <<BlockOpen, " ", "limit", " ">> \o InList("in", <<>>, LargeInItems + 1)
       \o <<BlockClose, NL>>}

PatternSelects ==
    {<<"select", " ", "*", " ", "from", " ", "users">>,
     <<"SELECT", " ", "x", " ", "from", " ", "users">>,
     <<"select", " ", "*", " ", "from", " ", "(", "SELECT", " ", "*", " ", "from", " ",
       "users", ")">>}

PatternWheres ==
    {<<>>,
     <<" ", "where", " ", "lower", "(", "x", ")", " ", "=", " ", "lower", " ", "(", "x", ")">>}
      \cup {<<" ", "where", " ", "x", " ">> \o InList("in", <<" ">>, n) : n \in ListSizes}
      \cup {<<" ", "WHERE", " ", "x", "::", "x", " ">> \o InList("IN", <<>>, n)
              \o <<" ", "and", " ", "x", "::", "x", " ">> \o InList("in", <<" ", NL>>, m) :
              n \in ListSizes, m \in ListSizes}

PatternTails ==
    {<<>>,
     <<" ", "limit", " ", "1">>,
     <<NL, "LIMIT", " ", "1">>,
     <<" ", "limit", NL, "1">>,
     <<" ", "limit">>,
     <<" ", LineOpen, " ", "limit", " ", "1">>}

PatternSqls ==
    {head \o select \o where \o tail :
       head \in PatternHeads, select \in PatternSelects,
       where \in PatternWheres, tail \in PatternTails}

InitPatterns ==
    /\ pc = "ready"
    /\ explain_json = JDict("Plan" :> Scan("users", JStr("(a = 1)"), 2 * SEQ_SCAN_ROW_THRESHOLD))
    /\ max_nodes = DefaultMaxNodes
    /\ max_depth = DefaultMaxDepth
    /\ parsed = NotParsed
    /\ sql \in PatternSqls
    /\ order = SourceOrder
    /\ parse = ParseRaised("")
    /\ guard = NotGuarded
    /\ IdleAnalyze /\ IdleRank

SpecPatterns == InitPatterns /\ [][NextAnalyze]_vars

SelectStarWarning == "SELECT * returns wide rows; project only needed columns."

MissingLimitWarning == "Missing LIMIT clause may scan more rows than necessary."

WhereFunctionWarning ==
    "Functions in WHERE can prevent index usage; precompute or index computed column."

CastWarning ==
    "Implicit casts detected; align column and literal types to avoid casted scans."

WarningOrder ==
    <<SelectStarWarning, MissingLimitWarning, WhereFunctionWarning, CastWarning,
      LargeInWarning>>

WarningPlace(warning) == CHOOSE k \in 1..Len(WarningOrder) : WarningOrder[k] = warning

Warned(warning) ==
    \E i \in 1..Len(output.value.anti_patterns) : output.value.anti_patterns[i] = warning

\* The SQL text without its comments, in lower case
StrippedSql == LowerAll(_strip_sql_comments(sql))

\* The comma-separated items of the IN list opening after token i: 0 when
\* token i is not the word in followed by a parenthesised, closed list.
StatedListItems(text, i) ==
    IF text[i] # "in" THEN 0
    ELSE LET rest == {k \in (i + 1)..Len(text) : text[k] \notin {" ", NL}}
             closes == {k \in (i + 1)..Len(text) : text[k] = ")"}
         IN  IF rest = {} \/ closes = {} THEN 0
             ELSE LET open == CHOOSE k \in rest : \A l \in rest : k <= l
                      close == CHOOSE k \in closes : \A l \in closes : k <= l
                  IN  IF text[open] # "(" \/ close <= open + 1 THEN 0
                      ELSE 1 + Cardinality({k \in open..close : text[k] = ","})

OversizedLists ==
    {i \in 1..Len(StrippedSql) : StatedListItems(StrippedSql, i) > LargeInItems}

\* C26: the warnings are a subsequence of the fixed order select-star,
\* missing-limit, function-in-WHERE, implicit-cast, large-IN-list, each at
\* most once, however often its pattern occurs in the text.
C26_WarningsInFixedOrderOnce ==
    pc = "done" /\ output.exc = "none" =>
      LET warnings == output.value.anti_patterns IN
      /\ \A i \in 1..Len(warnings) : \E k \in 1..Len(WarningOrder) : WarningOrder[k] = warnings[i]
      /\ \A i \in 1..Len(warnings) : \A j \in 1..Len(warnings) :
           i < j => WarningPlace(warnings[i]) < WarningPlace(warnings[j])

\* Two oversized IN lists, two casts and two SELECT *: one warning each.
C26_Witness ==
    /\ pc = "done" /\ output.exc = "none"
    /\ Cardinality(OversizedLists) = 2
    /\ Cardinality({i \in 1..Len(StrippedSql) : StrippedSql[i] = "::"}) = 2
    /\ Cardinality({i \in 1..Len(StrippedSql) : StrippedSql[i] = "*"}) = 2
    /\ output.value.anti_patterns
         = <<SelectStarWarning, MissingLimitWarning, CastWarning, LargeInWarning>>

\* C27: the large-IN-list warning is given exactly when some IN list of
\* the comment-stripped text, read from the parenthesis after IN to the
\* next ")", has more than 20 comma-separated items.
C27_LargeInAboveTwenty ==
    pc = "done" /\ output.exc = "none" =>
      (Warned(LargeInWarning) <=> OversizedLists # {})

\* A single list of 21 items is reported.
C27_Witness ==
    /\ pc = "done" /\ output.exc = "none"
    /\ \E i \in 1..Len(StrippedSql) : StatedListItems(StrippedSql, i) = LargeInItems + 1
    /\ \A i \in 1..Len(StrippedSql) : StatedListItems(StrippedSql, i) <= LargeInItems + 1
    /\ Cardinality(OversizedLists) = 1
    /\ Warned(LargeInWarning)

\* The word limit between whitespace of any kind or the ends of the text
HasLimitToken(text) ==
    \E i \in 1..Len(text) :
      /\ text[i] = "limit"
      /\ i = 1 \/ IsSpace(text[i - 1])
      /\ i = Len(text) \/ IsSpace(text[i + 1])

\* C28: the missing-limit warning is given exactly when the
\* comment-stripped text holds no LIMIT token, delimited by any whitespace
\* or an end of the text, and does not start with explain.
C28_MissingLimitIffNoLimitToken ==
    pc = "done" /\ output.exc = "none" =>
      (Warned(MissingLimitWarning)
         <=> ~HasLimitToken(StrippedSql) /\ ~StartsWithExplain(StrippedSql))

---------------------------------------------------------------------------
(* _infer_missing_data over trees with actual rows at each place *)

RowMarks == {Absent, JInt(0), JInt(5)}

Marked(mark, kids) ==
    PlanNode(("Node Type" :> JStr("Index Scan")) @@ ("Plan Rows" :> JInt(5))
               @@ ("Actual Rows" :> mark)
               @@ ("Plans" :> IF kids = <<>> THEN Absent ELSE JList(kids)))

\* root; root-[a]; root-[a, b]; root-[a-[c], b]; root-[a-[c, d], b]
MarkedTrees ==
    {Marked(r, <<>>) : r \in RowMarks}
      \cup {Marked(r, <<Marked(a, <<>>)>>) : r \in RowMarks, a \in RowMarks}
      \cup {Marked(r, <<Marked(a, <<>>), Marked(b, <<>>)>>) :
              r \in RowMarks, a \in RowMarks, b \in RowMarks}
      \cup {Marked(r, <<Marked(a, <<Marked(c, <<>>)>>), Marked(b, <<>>)>>) :
              r \in RowMarks, a \in RowMarks, b \in RowMarks, c \in RowMarks}
      \cup {Marked(r, <<Marked(a, <<Marked(c, <<>>), Marked(d, <<>>)>>), Marked(b, <<>>)>>) :
              r \in RowMarks, a \in RowMarks, b \in RowMarks, c \in RowMarks,
              d \in RowMarks}

InitMissing ==
    /\ pc = "ready"
    /\ explain_json \in {JDict("Plan" :> tree) : tree \in MarkedTrees}
    /\ max_nodes = DefaultMaxNodes
    /\ max_depth = DefaultMaxDepth
    /\ parsed = NotParsed
    /\ sql = SampleSql
    /\ order = SourceOrder
    /\ parse = ParseRaised("")
    /\ guard = NotGuarded
    /\ IdleAnalyze /\ IdleRank

SpecMissing == InitMissing /\ [][NextAnalyze]_vars

CarriesActualRows(node) == node.actual_rows # JNull \/ node.actual_total_rows # JNull

\* C29: missing_data is ["actual_rows"] exactly when no node of the tree
\* carries actual_rows or actual_total_rows, wherever the carrying node
\* sits; confidence.overall is 0.7 when some node carries them and 0.6
\* otherwise (in hundredths: 70 and 60).
C29_ActualRowsMissingIffNowhere ==
    pc = "done" /\ output.exc = "none" =>
      LET nodes == Nodes(parsed.value)
          carried == \E i \in 1..Len(nodes) : CarriesActualRows(nodes[i])
      IN  /\ output.value.confidence.missing_data
               = IF carried THEN <<>> ELSE <<"actual_rows">>
          /\ output.value.confidence.overall = IF carried THEN 70 ELSE 60

\* Five nodes, and only the one the work-list reaches last (the first child
\* of the first child) carries actual rows: nothing is missing.
C29_Witness ==
    /\ pc = "done" /\ output.exc = "none"
    /\ NodeCount(parsed.value) = 5
    /\ LET nodes == Nodes(parsed.value) IN
       /\ Cardinality({i \in 1..Len(nodes) : CarriesActualRows(nodes[i])}) = 1
       /\ Len(parsed.value.children) = 2
       /\ Len(parsed.value.children[1].children) = 2
       /\ parsed.value.children[1].children[1].actual_rows = JInt(0)
    /\ output.value.confidence.missing_data = <<>>
    /\ output.value.confidence.overall = 70

====
